---- MODULE Spec2Model ----
(***************************************************************************)
(* Model of the WhatsApp forensic toolkit's core.  Specification Spec is  *)
(* the decryption core (src/src/crypto/decryptor.py): key loading, format *)
(* detection, the CRYPT12 / CRYPT14 / CRYPT15 decryption engine and       *)
(* encrypt_crypt12.  Specification ParserSpec is the schema-probing       *)
(* parser (src/src/parsing/parser.py), described at its section below.    *)
(* ContactSpec is the Contact entity of the parser module, CustodySpec    *)
(* the chain of custody (src/src/forensics/chain_of_custody.py) with the  *)
(* evidence files its environment changes, and ComplianceSpec the         *)
(* compliance checker (src/src/forensics/compliance.py).                  *)
(*                                                                         *)
(* Bytes are naturals 0..255 and files are sequences of bytes.  The two   *)
(* library primitives are modelled by what the code relies on:            *)
(*   - AES-GCM decrypt()/encrypt() without verify(): a stream cipher, the *)
(*     data XOR a keystream that depends on key, nonce and position; the  *)
(*     constructor rejects keys that are not 16, 24 or 32 bytes long and  *)
(*     an empty nonce.  The authentication tag is never read.             *)
(*   - zlib: the zlib container (2-byte header, deflate stream, Adler-32  *)
(*     trailer) with the deflate stream restricted to one final stored    *)
(*     block; bytes after the trailer are ignored, as zlib.decompress     *)
(*     does.                                                               *)
(* Input files may be missing or unreadable; writes to the output path    *)
(* are modelled as succeeding.                                             *)
(***************************************************************************)
EXTENDS Integers, Sequences, FiniteSets, TLC

\* ------------------------------------------------------------------ bounds
\* longest plaintext database used as input
MaxPlainLen == 1
\* synthetic CRYPT14 containers start their body up to OffsetMargin bytes
\* before the first and after the last candidate offset
OffsetMargin == 1
\* key files are up to 158 + MaxExtraKeyLen bytes long
MaxExtraKeyLen == 1
\* parser operations called on one WhatsAppParser
MaxCalls == 2

\* ------------------------------------------------------- program constants
\* _load_key: canonical key file length, key offset, raw key length
KeyFileSize == 158
KeyOffset == 126
KeySize == 32
\* detect_encryption_type: bytes of header read and compared
HeaderSize == 16

\* a detector that compares only two bytes
ZeroPrefixSizeMut == 3 - 1

ZeroPrefixSize == 3

\* decrypt_crypt12: minimum size, IV window, body start
\* a size check that lets an 86-byte file through
Crypt12MinSizeMut == 87 - 1

Crypt12MinSize == 87
Crypt12IvStart == 51
Crypt12BodyStart == 67
\* decrypt_crypt14: minimum size, IV window, candidate window
Crypt14MinSize == 195
Crypt14IvStart == 67
Crypt14IvEnd == 83
FirstOffset == 185
LastOffset == 195
\* decrypt_crypt15: fixed body start
Crypt15BodyStart == 195
\* an engine that strips one byte too many
FooterSizeMut == 20 + 1

\* trailing footer skipped by every format
FooterSize == 20

\* --------------------------------------------------------- byte sequences
Take(s, n) == SubSeq(s, 1, IF n < Len(s) THEN n ELSE Len(s))

\* Python s[a:] for a >= 0
From(s, a) == SubSeq(s, a + 1, Len(s))

\* Python s[a:b] for 0 <= a, 0 <= b
Slice(s, a, b) == SubSeq(s, a + 1, IF b < Len(s) THEN b ELSE Len(s))

\* Python s[a:-n] for a >= 0, n > 0
SliceNeg(s, a, n) == SubSeq(s, a + 1, Len(s) - n)

\* Python s[-n:] for n > 0
Last(s, n) == IF Len(s) <= n THEN s ELSE SubSeq(s, Len(s) - n + 1, Len(s))

Zeros(n) == [i \in 1..n |-> 0]

RECURSIVE Xor(_, _, _)
Xor(a, b, bits) ==
    IF bits = 0 THEN 0
    ELSE (((a % 2) + (b % 2)) % 2) + 2 * Xor(a \div 2, b \div 2, bits - 1)

RECURSIVE Mix(_, _)
\* position-weighted digest of the first n bytes of s
Mix(s, n) == IF n = 0 THEN 7 ELSE (Mix(s, n - 1) * 31 + s[n] + n) % 65521

\* ------------------------------------------------------------- AES-GCM
AesKeySizes == {16, 24, 32}

\* the keystream is a function of key and nonce (through KeySeed) and position
KeySeed(key, nonce) == (Mix(key, Len(key)) * 131 + Mix(nonce, Len(nonce)) * 137) % 65521

KeyStream(seed, i) == ((seed + i * i * 29 + i * 151 + 89) % 65521) % 256

\* AES.new(key, mode=AES.MODE_GCM, nonce=iv) followed by cipher.decrypt(data)
\* (or cipher.encrypt(data)); verify() is never called.
GcmCrypt(key, nonce, data) ==
    IF Len(key) \notin AesKeySizes \/ Len(nonce) = 0
    THEN [ok |-> FALSE, data |-> <<>>]
    ELSE LET seed == KeySeed(key, nonce) IN
         [ok |-> TRUE,
          data |-> [i \in 1..Len(data) |-> Xor(data[i], KeyStream(seed, i), 8)]]

\* ---------------------------------------------------------------- zlib
RECURSIVE AdlerA(_, _)
AdlerA(d, n) == IF n = 0 THEN 1 ELSE (AdlerA(d, n - 1) + d[n]) % 65521

RECURSIVE AdlerB(_, _)
AdlerB(d, n) == IF n = 0 THEN 0 ELSE (AdlerB(d, n - 1) + AdlerA(d, n)) % 65521

Adler32Bytes(d) ==
    LET a == AdlerA(d, Len(d))
        b == AdlerB(d, Len(d))
    IN  <<b \div 256, b % 256, a \div 256, a % 256>>

\* zlib.compress: header 0x78 0x01, one final stored block, Adler-32
Compress(p) ==
    LET n == Len(p) IN
    <<120, 1, 1, n % 256, n \div 256, (65535 - n) % 256, (65535 - n) \div 256>>
        \o p \o Adler32Bytes(p)

\* zlib.decompress: ok = FALSE stands for zlib.error
Decompress(d) ==
    LET fail == [ok |-> FALSE, data |-> <<>>] IN
    IF Len(d) < 7 THEN fail
    ELSE IF ~ (/\ d[1] % 16 = 8
               /\ d[1] \div 16 <= 7
               /\ (d[1] * 256 + d[2]) % 31 = 0
               /\ (d[2] \div 32) % 2 = 0) THEN fail
    ELSE IF ~ (d[3] % 2 = 1 /\ (d[3] \div 2) % 4 = 0) THEN fail
    ELSE LET n    == d[4] + 256 * d[5]
             nlen == d[6] + 256 * d[7]
         IN  IF n + nlen # 65535 \/ Len(d) < 7 + n + 4 THEN fail
             ELSE LET body == SubSeq(d, 8, 7 + n) IN
                  IF SubSeq(d, 8 + n, 11 + n) # Adler32Bytes(body) THEN fail
                  ELSE [ok |-> TRUE, data |-> body]

\* ------------------------------------------------------------ key loader
\* A file on disk: st is "missing", "unreadable" or "ok".
MissingFile == [suffix |-> "", st |-> "missing", data |-> <<>>]

\* a loader whose fallback takes the first 32 bytes instead of the last
LoadKeyMut(kf) ==
    IF kf.st = "missing" THEN [status |-> "FileNotFoundError", key |-> <<>>]
    ELSE IF Len(kf.data) >= KeyFileSize
         THEN [status |-> "ok", key |-> From(kf.data, KeyOffset)]
    ELSE IF Len(kf.data) >= KeySize
         THEN [status |-> "ok", key |-> Take(kf.data, KeySize)]
    ELSE [status |-> "ValueError", key |-> <<>>]

\* WhatsAppDecryptor.__init__ / _load_key: the constructor's outcome
LoadKey(kf) ==
    IF kf.st = "missing" THEN [status |-> "FileNotFoundError", key |-> <<>>]
    ELSE IF Len(kf.data) >= KeyFileSize
         THEN [status |-> "ok", key |-> From(kf.data, KeyOffset)]
    ELSE IF Len(kf.data) >= KeySize
         THEN [status |-> "ok", key |-> Last(kf.data, KeySize)]
    ELSE [status |-> "ValueError", key |-> <<>>]

\* -------------------------------------------------------- format detector
SQLiteSignature == <<83, 81, 76, 105, 116, 101, 32, 102, 111, 114, 109, 97, 116, 32, 51, 0>>

\* a probe that tests the zero prefix first, with the test inverted
HeaderProbeMut(f) ==
    IF f.st # "ok" THEN "OSError"
    ELSE LET header == Take(f.data, HeaderSize) IN
         IF Take(header, ZeroPrefixSize) # Zeros(ZeroPrefixSize) THEN "CRYPT14"
         ELSE IF Take(header, HeaderSize) = SQLiteSignature THEN "UNENCRYPTED"
         ELSE "fallthrough"

\* the body of the try block: open(db_path, "rb"), f.read(16), the two header tests
HeaderProbe(f) ==
    IF f.st # "ok" THEN "OSError"
    ELSE LET header == Take(f.data, HeaderSize) IN
         IF Take(header, HeaderSize) = SQLiteSignature THEN "UNENCRYPTED"
         ELSE IF Take(header, ZeroPrefixSize) = Zeros(ZeroPrefixSize) THEN "CRYPT14"
         ELSE "fallthrough"

\* a detector without the except clause: the read error propagates
ProbeOrDefaultMut(r) ==
    IF r = "fallthrough" THEN "UNENCRYPTED" ELSE r

\* except Exception: pass, then the default return
ProbeOrDefault(r) ==
    IF r \in {"OSError", "fallthrough"} THEN "UNENCRYPTED" ELSE r

SuffixType(suffix) ==
    IF suffix = ".crypt12" THEN "CRYPT12"
    ELSE IF suffix = ".crypt14" THEN "CRYPT14"
    ELSE IF suffix = ".crypt15" THEN "CRYPT15"
    ELSE "none"

DetectEncryptionType(f) ==
    IF SuffixType(f.suffix) # "none" THEN SuffixType(f.suffix)
    ELSE ProbeOrDefault(HeaderProbe(f))

\* ------------------------------------------------------ decryption engine
CipherFail == [ok |-> FALSE, data |-> <<>>]

\* AES.new + cipher.decrypt + zlib.decompress on one ciphertext region
DecryptAndDecompress(k, nonce, encrypted_data) ==
    LET c == GcmCrypt(k, nonce, encrypted_data) IN
    IF ~ c.ok THEN CipherFail ELSE Decompress(c.data)

\* decrypt_crypt12 up to (not including) the write: cipher_calls counts AES.new calls
DecryptCrypt12(f, k) ==
    IF f.st # "ok" \/ Len(f.data) < Crypt12MinSize
    THEN [ok |-> FALSE, data |-> <<>>, cipher_calls |-> 0]
    ELSE LET r == DecryptAndDecompress(k,
                      Slice(f.data, Crypt12IvStart, Crypt12BodyStart),
                      SliceNeg(f.data, Crypt12BodyStart, FooterSize))
         IN  [ok |-> r.ok, data |-> r.data, cipher_calls |-> 1]

\* decrypt_crypt14: db_data[offset:-20] if len(db_data) > offset + 20 else db_data[offset:]
Crypt14Body(data, o) ==
    IF Len(data) > o + FooterSize THEN SliceNeg(data, o, FooterSize) ELSE From(data, o)

\* one iteration of the candidate loop of decrypt_crypt14, up to the write
TryOffset(data, k, o) ==
    DecryptAndDecompress(k, Slice(data, Crypt14IvStart, Crypt14IvEnd), Crypt14Body(data, o))

\* a loop that steps over every other candidate
NextOffsetMut(o) == o + 2

\* range(185, 196): the successor of a candidate
NextOffset(o) == o + 1

\* a window that ends one candidate early: range(185, 195)
IsLastOffsetMut(o) == o = LastOffset - 1

\* if offset == 195: raise
IsLastOffset(o) == o = LastOffset

\* decrypt_crypt14 before the loop: the read and the size check
Crypt14Readable(f) == f.st = "ok" /\ Len(f.data) >= Crypt14MinSize

\* decrypt_crypt15 up to the write (no minimum size is checked)
DecryptCrypt15(f, k) ==
    IF f.st # "ok"
    THEN [ok |-> FALSE, data |-> <<>>, cipher_calls |-> 0]
    ELSE LET body == IF Len(f.data) > Crypt15BodyStart + FooterSize
                     THEN SliceNeg(f.data, Crypt15BodyStart, FooterSize)
                     ELSE From(f.data, Crypt15BodyStart)
             r == DecryptAndDecompress(k, Slice(f.data, Crypt14IvStart, Crypt14IvEnd), body)
         IN  [ok |-> r.ok, data |-> r.data, cipher_calls |-> 1]

\* encrypt_crypt12 up to the write: header, IV and footer are sliced from the
\* reference file, the database is compressed and encrypted under self.key
EncryptCrypt12(k, db, ref) ==
    IF ref.st # "ok" \/ db.st # "ok" THEN CipherFail
    ELSE LET header == Take(ref.data, 51)
             iv     == Slice(ref.data, 51, 67)
             footer == Last(ref.data, 20)
             c      == GcmCrypt(k, iv, Compress(db.data))
         IN  IF ~ c.ok THEN CipherFail
             ELSE [ok |-> TRUE, data |-> header \o iv \o c.data \o footer]

\* decrypt(): output_file is None -> parent / (stem + ".db"), which is the input
\* path itself exactly when the input's suffix is ".db"
SamePath(f, output_arg) == output_arg = "default" /\ f.suffix = ".db"

\* shutil.copy2(encrypted_file, output_file) on the UNENCRYPTED path
CopyOutcome(f, output_arg) ==
    IF SamePath(f, output_arg) THEN "SameFileError"
    ELSE IF f.st # "ok" THEN "PermissionError"
    ELSE "copied"

\* ------------------------------------------------------------ input files
\* key files: missing, or n bytes whose i-th byte is (7 i + 3) mod 256
KeyFileLens == {0, 31, 32, 157} \cup (158 .. (158 + MaxExtraKeyLen))

KeyFileData(n) == [i \in 1..n |-> (7 * i + 3) % 256]

KeyFiles == {MissingFile}
                \cup {[suffix |-> "", st |-> "ok", data |-> KeyFileData(n)] : n \in KeyFileLens}

\* plaintext databases: the SQLite signature followed by n page bytes
Plaintexts == {SQLiteSignature \o [i \in 1..n |-> 7] : n \in 0..MaxPlainLen}

Iv == [i \in 1..16 |-> (13 * i + 5) % 256]

\* the key a container is encrypted under: the decryptor's own key when AES
\* accepts it, or a different 32-byte key; a tampered footer is put only on a
\* container under the decryptor's own key
WrongKey(k) == [i \in 1..32 |-> IF i = 1 THEN (k[1] + 1) % 256 ELSE k[i]]

ContainerKeys(k) == IF Len(k) = 32 THEN {k, WrongKey(k)} ELSE {WrongKey(k)}

\* the 16-byte GCM tag of a ciphertext followed by 4 trailer bytes; a tampered
\* footer differs from it in its first byte
GcmTag(k, nonce, ct) ==
    [i \in 1..16 |-> (Mix(k, Len(k)) + Mix(nonce, Len(nonce)) + Mix(ct, Len(ct)) + 17 * i) % 256]

Footer(k, nonce, ct, tampered) ==
    LET tag == GcmTag(k, nonce, ct) IN
    [i \in 1..20 |->
        IF i > 16 THEN 0
        ELSE IF i = 1 /\ tampered THEN (tag[1] + 1) % 256
        ELSE tag[i]]

\* header (zeros) + IV at ivStart + zeros up to bodyStart + ciphertext + footer
Container(k, ivStart, bodyStart, plain, tampered) ==
    LET ct == GcmCrypt(k, Iv, Compress(plain)).data IN
    Zeros(ivStart) \o Iv \o Zeros(bodyStart - ivStart - 16) \o ct
        \o Footer(k, Iv, ct, tampered)

Meta(kind, t, plain, tampered, keyOK) ==
    [kind |-> kind, t |-> t, plain |-> plain, tampered |-> tampered, keyOK |-> keyOK]

NoMeta == Meta("none", 0, <<>>, FALSE, FALSE)

TrueOffsets == (185 - OffsetMargin) .. (195 + OffsetMargin)

Crypt14Suffixes(t) == IF t = 185 THEN {".crypt14", "", ".db"} ELSE {".crypt14"}

Crypt14Inputs(k) ==
    {[file |-> [suffix |-> sfx, st |-> "ok",
                data |-> Container(ck, 67, t, p, tam)],
      meta |-> Meta("crypt14", t, p, tam, ck = k)] :
        <<t, p, ck, tam, sfx>> \in
            {<<t, p, ck, tam, sfx>> \in TrueOffsets \X Plaintexts
                    \X ContainerKeys(k) \X BOOLEAN \X {".crypt14", "", ".db"} :
                sfx \in Crypt14Suffixes(t) /\ (tam => ck = k)}}

Crypt12Inputs(k) ==
    {[file |-> [suffix |-> ".crypt12", st |-> "ok",
                data |-> Container(ck, 51, 67, p, tam)],
      meta |-> Meta("crypt12", 67, p, tam, ck = k)] :
        <<p, ck, tam>> \in {<<p, ck, tam>> \in Plaintexts \X ContainerKeys(k) \X BOOLEAN :
                                tam => ck = k}}

Crypt15Inputs(k) ==
    {[file |-> [suffix |-> ".crypt15", st |-> "ok",
                data |-> Container(ck, 67, 195, p, tam)],
      meta |-> Meta("crypt15", 195, p, tam, ck = k)] :
        <<p, ck, tam>> \in {<<p, ck, tam>> \in Plaintexts \X ContainerKeys(k) \X BOOLEAN :
                                tam => ck = k}}

Suffixes == {".crypt12", ".crypt14", ".crypt15", ".db", ""}

\* files that are no container: a plaintext database, an empty file, short
\* files, a truncated signature; and missing or unreadable paths
RawData == Plaintexts \cup {<<>>, <<0, 0>>, <<0, 0, 0>>, Take(SQLiteSignature, 15)}

RawInputs ==
    {[file |-> [suffix |-> sfx, st |-> "ok", data |-> d],
      meta |-> Meta("raw", 0, <<>>, FALSE, FALSE)] : sfx \in Suffixes, d \in RawData}
    \cup
    {[file |-> [suffix |-> sfx, st |-> st, data |-> <<>>],
      meta |-> Meta("raw", 0, <<>>, FALSE, FALSE)] :
        sfx \in Suffixes, st \in {"missing", "unreadable"}}

\* files at the two minimum sizes and one byte below them
BoundaryInputs ==
    {[file |-> [suffix |-> ".crypt12", st |-> "ok", data |-> Zeros(n)],
      meta |-> Meta("raw", 0, <<>>, FALSE, FALSE)] : n \in {86, 87}}
    \cup
    {[file |-> [suffix |-> ".crypt14", st |-> "ok", data |-> Zeros(n)],
      meta |-> Meta("raw", 0, <<>>, FALSE, FALSE)] : n \in {194, 195}}

Inputs(k) == Crypt14Inputs(k) \cup Crypt12Inputs(k) \cup Crypt15Inputs(k) \cup RawInputs
                \cup BoundaryInputs

\* reference containers handed to encrypt_crypt12: n bytes, long enough for
\* header, IV and footer (87, 120), cut inside the IV (66), cut inside the
\* header (40), or missing
ReferenceData(n) == [i \in 1..n |-> (11 * i + 2) % 256]

References ==
    {[suffix |-> ".crypt12", st |-> "ok", data |-> ReferenceData(n)] : n \in {40, 66, 87, 120}}
        \cup {[suffix |-> ".crypt12", st |-> "missing", data |-> <<>>]}

\* the output path before the call: absent, or a file left by an earlier run
AbsentFile == [exists |-> FALSE, data |-> <<>>]

StaleFile == [exists |-> TRUE, data |-> <<9, 9>>]

PreOutputs == {AbsentFile, StaleFile}

OutputArgs == {"explicit", "default"}

\* ------------------------------------------------------------------ state
VARIABLES
    key_file,      \* the key file handed to the constructor
    constructed,   \* "none", "ok", or the exception the constructor raised
    key,           \* self.key
    pc,            \* "idle", "encrypted", "crypt14_loop", "done"
    op,            \* the operation called: "none", "detect", "encrypt", "decrypt"
    reference,     \* encrypt_crypt12: the reference container
    enc,           \* the input file of the call
    meta,          \* how the input file was built (not read by the program)
    output_arg,    \* output_file argument: "explicit" or "default" (None)
    out,           \* the file at the output path
    out_before,    \* the file at the output path when the call began
    enc_type,      \* decrypt(): the detected EncryptionType
    db_data,       \* decrypt_crypt14: the bytes read from the input file
    offset,        \* decrypt_crypt14: the loop variable
    tried,         \* decrypt_crypt14: the candidates tried so far and their outcome
    cipher_calls,  \* number of AES.new calls made by the call
    ret            \* the call's result: a value or the exception it propagated

\* the parser (src/src/parsing/parser.py)
VARIABLES
    parser,          \* "none", "ok", or the exception WhatsAppParser() raised
    msgstore_db,     \* the file at self.msgstore_db
    wa_db,           \* the file passed as wa_db
    has_wa,          \* self.wa_db is not None
    contacts_cache,  \* self.contacts_cache: a function from jid to display name
    open_conns,      \* connections opened and not closed
    calls            \* the operations called so far, each with its outcome

parser_vars == <<parser, msgstore_db, wa_db, has_wa, contacts_cache, open_conns, calls>>

\* the Contact entities (src/src/parsing/parser.py, class Contact)
VARIABLES
    contact_objs     \* the Contact objects constructed so far

entity_vars == <<contact_objs>>

\* the chain of custody (src/src/forensics/chain_of_custody.py)
VARIABLES
    custody,          \* "none" or "ok": a ChainOfCustody has been constructed
    files,            \* the evidence files: path -> content, or Absent
    evidence_items,   \* self.evidence_items, in insertion order
    chain_log_file,   \* self.chain_log_file: whether it exists, and the items in it
    acquired,         \* item_id -> the file content add_evidence hashed (not read by the program)
    custody_ret       \* the last step: its operation, item_id and result, and
                      \* evidence_items and chain_log_file as they were before it

custody_vars == <<custody, files, evidence_items, chain_log_file, acquired, custody_ret>>

\* the compliance checker (src/src/forensics/compliance.py)
VARIABLES
    checker,              \* "none" or "ok": a ComplianceChecker has been constructed
    compliance_issues,    \* self.compliance_issues
    compliance_warnings,  \* self.compliance_warnings
    checks                \* the checks and reports called so far, each with its result

compliance_vars == <<checker, compliance_issues, compliance_warnings, checks>>

decryptor_vars ==
    <<key_file, constructed, key, pc, op, enc, meta, output_arg, out, out_before,
      enc_type, db_data, offset, tried, cipher_calls, ret, reference>>

forensics_vars == <<entity_vars, custody_vars, compliance_vars>>

\* what the decryptor leaves alone, and what the parser leaves alone
not_decryptor_vars == <<parser_vars, forensics_vars>>
not_parser_vars == <<decryptor_vars, forensics_vars>>

\* a file that does not exist
Absent == <<"absent">>

\* the state before any entity, ChainOfCustody or ComplianceChecker exists
ForensicsUnused ==
    /\ contact_objs = <<>>
    /\ custody = "none"
    /\ files = [p \in {"msgstore.db", "key"} |-> Absent]
    /\ evidence_items = <<>>
    /\ chain_log_file = [exists |-> FALSE, evidence_items |-> <<>>]
    /\ acquired = <<>>
    /\ custody_ret = [op |-> "none", item_id |-> <<>>, ret |-> "none",
                      items_before |-> <<>>,
                      log_before |-> [exists |-> FALSE, evidence_items |-> <<>>]]
    /\ checker = "none"
    /\ compliance_issues = <<>>
    /\ compliance_warnings = <<>>
    /\ checks = <<>>

\* no database file at the path
NoDb == [st |-> "missing", tables |-> <<>>]

\* the state before WhatsAppParser() is called
ParserUnused ==
    /\ parser = "none"
    /\ msgstore_db = NoDb
    /\ wa_db = NoDb
    /\ has_wa = FALSE
    /\ contacts_cache = <<>>
    /\ open_conns = 0
    /\ calls = <<>>

vars == <<key_file, constructed, key, pc, op, enc, meta, output_arg, out, out_before,
          enc_type, db_data, offset, tried, cipher_calls, ret, reference, parser_vars,
          forensics_vars>>

Init ==
    /\ key_file = MissingFile
    /\ constructed = "none"
    /\ key = <<>>
    /\ pc = "idle"
    /\ op = "none"
    /\ enc = MissingFile
    /\ meta = NoMeta
    /\ output_arg = "explicit"
    /\ out = AbsentFile
    /\ out_before = AbsentFile
    /\ enc_type = "none"
    /\ db_data = <<>>
    /\ offset = 0
    /\ tried = <<>>
    /\ cipher_calls = 0
    /\ ret = "none"
    /\ reference = MissingFile
    /\ ParserUnused
    /\ ForensicsUnused

\* WhatsAppDecryptor(key_file)
Construct ==
    /\ constructed = "none"
    /\ \E kf \in KeyFiles :
        /\ key_file' = kf
        /\ constructed' = LoadKey(kf).status
        /\ key' = LoadKey(kf).key
    /\ UNCHANGED <<pc, op, enc, meta, output_arg, out, out_before, enc_type, db_data,
                   offset, tried, cipher_calls, ret, reference, not_decryptor_vars>>

\* decryptor.detect_encryption_type(db_file)
Detect ==
    /\ constructed = "ok" /\ pc = "idle"
    /\ \E in \in Inputs(key) :
        /\ enc' = in.file
        /\ meta' = in.meta
        /\ ret' = DetectEncryptionType(in.file)
    /\ op' = "detect"
    /\ pc' = "done"
    /\ UNCHANGED <<key_file, constructed, key, output_arg, out, out_before, enc_type,
                   db_data, offset, tried, cipher_calls, reference, not_decryptor_vars>>

\* decryptor.encrypt_crypt12(db_file, output_file, reference_encrypted) with an
\* output file named *.crypt12; on failure no container is produced
Encrypt ==
    /\ constructed = "ok" /\ pc = "idle"
    /\ \E d \in RawData, ref \in References :
        LET r == EncryptCrypt12(key, [suffix |-> ".db", st |-> "ok", data |-> d], ref) IN
        /\ reference' = ref
        /\ meta' = Meta("roundtrip", 67, d, FALSE, TRUE)
        /\ enc' = [suffix |-> ".crypt12", st |-> IF r.ok THEN "ok" ELSE "missing",
                   data |-> r.data]
        /\ ret' = IF r.ok THEN "True" ELSE "False"
    /\ op' = "encrypt"
    /\ pc' = "encrypted"
    /\ UNCHANGED <<key_file, constructed, key, output_arg, out, out_before, enc_type,
                   db_data, offset, tried, cipher_calls, not_decryptor_vars>>

\* the write of the decompressed bytes: with open(output_file, "wb") as f: f.write(...)
Written(bytes) == [exists |-> TRUE, data |-> bytes]

\* an engine that writes whatever the cipher and decompressor returned
OutputAfterMut(r, o) == Written(r.data)

\* decompress, then write: the output path is opened for writing only once
\* decryption and decompression have returned; r is their outcome, o the file
\* at the output path so far
OutputAfter(r, o) == IF r.ok THEN Written(r.data) ELSE o

\* the input file after a write to the output path (the same file when the
\* paths coincide)
InputAfterWrite(f, output_arg_, bytes) ==
    IF SamePath(f, output_arg_) THEN [f EXCEPT !.data = bytes] ELSE f

\* decrypt(): if success and output_path.exists(): return output_file else None
DecryptResult(success, o) == IF success /\ o.exists THEN "path" ELSE "None"

\* the file at the output path when the call begins: the input file itself
\* when the two paths coincide
PreOutput(f, oa, pre) ==
    IF SamePath(f, oa) /\ f.st # "missing" THEN [exists |-> TRUE, data |-> f.data] ELSE pre

\* the files decrypt() is called on: any input file, or, after
\* encrypt_crypt12, the container it produced
DecryptInputs ==
    IF pc = "encrypted" THEN {[file |-> enc, meta |-> meta]} ELSE Inputs(key)

\* decryptor.decrypt(encrypted_file, output_file), up to its return or, for
\* CRYPT14 input that passes the size check, up to the first loop iteration
Decrypt ==
    /\ constructed = "ok" /\ pc \in {"idle", "encrypted"}
    /\ op' = "decrypt"
    /\ \E in \in DecryptInputs, oa \in OutputArgs, p \in PreOutputs :
        LET f   == in.file
            t   == DetectEncryptionType(f)
            pre == PreOutput(f, oa, p)
        IN
        /\ meta' = in.meta
        /\ output_arg' = oa
        /\ out_before' = pre
        /\ IF f.st = "missing"
           THEN \* raise FileNotFoundError
                /\ ret' = "FileNotFoundError"
                /\ enc_type' = "none"
                /\ enc' = f /\ out' = pre /\ pc' = "done"
                /\ UNCHANGED <<db_data, offset, tried, cipher_calls>>
           ELSE /\ enc_type' = t
                /\ IF t = "UNENCRYPTED"
                   THEN /\ IF CopyOutcome(f, oa) = "copied"
                           THEN ret' = "path" /\ out' = Written(f.data)
                           ELSE ret' = CopyOutcome(f, oa) /\ out' = pre
                        /\ enc' = f /\ pc' = "done"
                        /\ UNCHANGED <<db_data, offset, tried, cipher_calls>>
                   ELSE IF t = "CRYPT12" \/ t = "CRYPT15"
                   THEN LET r == IF t = "CRYPT12" THEN DecryptCrypt12(f, key)
                                 ELSE DecryptCrypt15(f, key)
                            o == OutputAfter(r, pre)
                        IN  /\ out' = o
                            /\ enc' = IF o # pre THEN InputAfterWrite(f, oa, o.data) ELSE f
                            /\ cipher_calls' = r.cipher_calls
                            /\ ret' = DecryptResult(r.ok, o)
                            /\ pc' = "done"
                            /\ UNCHANGED <<db_data, offset, tried>>
                   ELSE \* CRYPT14
                        /\ enc' = f /\ out' = pre
                        /\ IF Crypt14Readable(f)
                           THEN /\ pc' = "crypt14_loop"
                                /\ db_data' = f.data
                                /\ offset' = FirstOffset
                                /\ UNCHANGED <<tried, cipher_calls, ret>>
                           ELSE /\ pc' = "done"
                                /\ ret' = DecryptResult(FALSE, pre)
                                /\ UNCHANGED <<db_data, offset, tried, cipher_calls>>
    /\ UNCHANGED <<key_file, constructed, key, reference, not_decryptor_vars>>

\* one iteration of for offset in range(185, 196) in decrypt_crypt14, with the
\* return through decrypt() when the loop ends
Crypt14Try ==
    /\ pc = "crypt14_loop"
    /\ LET r == TryOffset(db_data, key, offset) IN
        /\ tried' = Append(tried, [offset |-> offset, ok |-> r.ok])
        /\ cipher_calls' = cipher_calls + 1
        /\ out' = OutputAfter(r, out)
        /\ enc' = IF out' # out THEN InputAfterWrite(enc, output_arg, out'.data) ELSE enc
        /\ IF r.ok
           THEN /\ ret' = DecryptResult(TRUE, out')
                /\ pc' = "done"
                /\ UNCHANGED offset
           ELSE IF IsLastOffset(offset)
           THEN /\ ret' = DecryptResult(FALSE, out')
                /\ pc' = "done"
                /\ UNCHANGED offset
           ELSE /\ offset' = NextOffset(offset)
                /\ UNCHANGED <<ret, pc>>
    /\ UNCHANGED <<key_file, constructed, key, op, meta, output_arg, out_before, enc_type,
                   db_data, reference, not_decryptor_vars>>

Next == Construct \/ Detect \/ Encrypt \/ Decrypt \/ Crypt14Try

Spec == Init /\ [][Next]_vars

\* ================================================================ parser
\* Model of src/src/parsing/parser.py.  A database file is a record: st is
\* "sqlite" (a valid database), "notadb" (not an SQLite file: the first
\* execute raises sqlite3.DatabaseError), "ioerr" (every execute raises
\* sqlite3.OperationalError "disk I/O error") or "missing"; tables maps each
\* table name to its columns and rows.  Text values are sequences of tokens
\* (a jid is <<local part, "@", domain>>); Null is SQL NULL / Python None.
Null == <<"NULL">>

Empty == <<>>

Table(cols, rows) == [cols |-> cols, rows |-> rows]

Range(s) == {s[i] : i \in 1..Len(s)}

\* one SELECT of a statement: the tables of its FROM clause, the tables of the
\* enclosing SELECT that it may refer to, and the columns it names, each as
\* <<table, column>> with table "" for an unqualified name
Select(from, outer, refs) == [from |-> from, outer |-> outer, refs |-> refs]

Unqualified(cols) == {<<"", c>> : c \in cols}

HasColumn(db, t, c) == t \in DOMAIN db.tables /\ c \in db.tables[t].cols

\* name resolution of one SELECT: every table exists, a qualified column
\* belongs to a table in scope, an unqualified column belongs to exactly one
\* table of the innermost scope that has it
Resolves(db, sel) ==
    /\ sel.from \subseteq DOMAIN db.tables
    /\ \A r \in sel.refs :
        IF r[1] # ""
        THEN r[1] \in (sel.from \cup sel.outer) /\ HasColumn(db, r[1], r[2])
        ELSE LET inner == {t \in sel.from : HasColumn(db, t, r[2])}
                 outer == {t \in sel.outer : HasColumn(db, t, r[2])}
             IN  IF inner # {} THEN Cardinality(inner) = 1 ELSE Cardinality(outer) = 1

\* cursor.execute(query): "ok", "schema" (OperationalError: no such table or
\* column, ambiguous column), "ioerr" (OperationalError: disk I/O error) or
\* "notadb" (DatabaseError: file is not a database)
Execute(db, query) ==
    IF db.st = "notadb" THEN "notadb"
    ELSE IF db.st = "ioerr" THEN "ioerr"
    ELSE IF \A sel \in query : Resolves(db, sel) THEN "ok"
    ELSE "schema"

\* an engine that reports every OperationalError to the caller
IsOperationalErrorMut(outcome) == FALSE

\* except sqlite3.OperationalError
IsOperationalError(outcome) == outcome \in {"schema", "ioerr"}

\* the exception class behind an outcome of execute
ExceptionOf(outcome) ==
    IF outcome = "notadb" THEN "DatabaseError" ELSE "OperationalError"

\* ------------------------------------------------------- parser: queries
ChatCountSelect ==
    Select({"message"}, {"chat", "jid"},
           {<<"message", "key_remote_jid">>, <<"jid", "raw_string">>})

\* get_chats: queries[0], "simple test schema"
ChatQuerySimple ==
    {Select({"chat", "jid"}, {},
            {<<"jid", "raw_string">>, <<"chat", "subject">>, <<"chat", "jid_row_id">>,
             <<"jid", "_id">>, <<"chat", "_id">>}),
     ChatCountSelect}

\* get_chats: queries[1], "modern schema"
ChatQueryModern ==
    {Select({"chat", "jid"}, {},
            {<<"jid", "raw_string">>, <<"chat", "subject">>, <<"chat", "jid_row_id">>,
             <<"jid", "_id">>, <<"chat", "last_message_row_id">>,
             <<"chat", "last_message_table_row_id">>,
             <<"chat", "last_read_message_table_row_id">>}),
     ChatCountSelect}

\* get_chats: queries[2], "older schema"; its count subquery names chat.jid
\* although no table chat is in scope
ChatQueryLegacy ==
    {Select({"chat_list"}, {}, Unqualified({"jid", "subject", "last_message_time"})),
     Select({"messages"}, {"chat_list"}, {<<"", "key_remote_jid">>, <<"chat", "jid">>})}

ChatQueries == <<ChatQuerySimple, ChatQueryModern, ChatQueryLegacy>>

MessageColsSimple ==
    {"_id", "key_remote_jid", "timestamp", "key_from_me", "data", "media_wa_type"}

MessageColsFull ==
    MessageColsSimple
        \cup {"media_path", "media_caption", "quoted_row_id", "remote_resource", "status"}

\* get_messages: queries_to_try, full / simple / older schema
MessageQueries ==
    <<{Select({"message"}, {}, Unqualified(MessageColsFull))},
      {Select({"message"}, {}, Unqualified(MessageColsSimple))},
      {Select({"messages"}, {}, Unqualified(MessageColsSimple \cup {"media_name"}))}>>

CallCols == {"timestamp", "from_me", "duration", "video_call", "call_result"}

\* get_call_logs: queries, call_log joined with jid / calls
CallQueries ==
    <<{Select({"call_log", "jid"}, {},
              Unqualified(CallCols \cup {"_id"})
                  \cup {<<"jid", "raw_string">>, <<"call_log", "jid_row_id">>,
                        <<"jid", "_id">>})},
      {Select({"calls"}, {}, Unqualified(CallCols \cup {"_id", "jid"}))}>>

\* the table names tried in the opposite order
ContactTablesMut == <<"user", "contacts", "wa_contacts">>

\* _load_contacts and get_contacts: wa_contacts, contacts, user
ContactTables == <<"wa_contacts", "contacts", "user">>

ContactQueries ==
    [i \in 1..3 |-> {Select({ContactTables[i]}, {}, Unqualified({"jid", "display_name"}))}]

\* get_contacts: the DISTINCT key_remote_jid query on msgstore.db, whose NOT IN
\* subquery reads table contacts of msgstore.db
MessageJidQuery ==
    {Select({"message"}, {}, Unqualified({"key_remote_jid"})),
     Select({"contacts"}, {}, Unqualified({"jid"}))}

\* --------------------------------------------------- parser: result rows
\* an integer column or attribute that holds NULL / None
NullInt == 0 - 1

\* Python truthiness of a text value: None and "" are falsy
Truthy(v) == v # Null /\ v # Empty

\* a loop without break: every variant from i on is executed
ProbeMut(db, name, queries, i) ==
    [j \in 1..(Len(queries) - i + 1) |->
        [db |-> name, variant |-> i + j - 1, outcome |-> Execute(db, queries[i + j - 1])]]

\* the variants executed by a probing loop from variant i on: the loop goes
\* on to the next variant after an OperationalError and ends at the first
\* variant that executes or raises anything else
RECURSIVE Probe(_, _, _, _)
Probe(db, name, queries, i) ==
    IF i > Len(queries) THEN <<>>
    ELSE LET o == Execute(db, queries[i])
             e == [db |-> name, variant |-> i, outcome |-> o]
         IN  IF IsOperationalError(o) THEN <<e>> \o Probe(db, name, queries, i + 1)
             ELSE <<e>>

\* how a probing loop ended: "ok" (a variant executed), "notadb" (execute
\* raised past the loop) or "exhausted" (every variant raised OperationalError)
ProbeEnd(ex) ==
    IF ex = <<>> THEN "exhausted"
    ELSE IF IsOperationalError(ex[Len(ex)].outcome) THEN "exhausted"
    ELSE ex[Len(ex)].outcome

\* chat JOIN jid ON chat.jid_row_id = jid._id (jid._id is the primary key)
ChatJoin(db) ==
    LET js == db.tables["jid"].rows
        cs == SelectSeq(db.tables["chat"].rows,
                        LAMBDA c : \E i \in 1..Len(js) : js[i]._id = c.jid_row_id)
    IN  [i \in 1..Len(cs) |->
            [_id |-> cs[i]._id,
             jid |-> (CHOOSE j \in Range(js) : j._id = cs[i].jid_row_id).raw_string,
             display_name |-> cs[i].subject,
             last_message_table_row_id |-> cs[i].last_message_table_row_id]]

\* the rows fetched by variant v of get_chats, in the query's order, with the
\* value the row loop reads as last_message_timestamp
ChatRows(db, v) ==
    IF v = 1
    THEN LET rows == SortSeq(ChatJoin(db), LAMBDA a, b : a._id > b._id) IN
         [i \in 1..Len(rows) |->
            [jid |-> rows[i].jid, display_name |-> rows[i].display_name,
             last_message_timestamp |-> NullInt]]
    ELSE IF v = 2
    THEN LET rows == SortSeq(ChatJoin(db),
                        LAMBDA a, b : a.last_message_table_row_id > b.last_message_table_row_id)
         IN
         [i \in 1..Len(rows) |->
            [jid |-> rows[i].jid, display_name |-> rows[i].display_name,
             last_message_timestamp |-> rows[i].last_message_table_row_id]]
    ELSE LET rows == SortSeq(db.tables["chat_list"].rows,
                        LAMBDA a, b : a.last_message_time > b.last_message_time)
         IN
         [i \in 1..Len(rows) |->
            [jid |-> rows[i].jid, display_name |-> rows[i].subject,
             last_message_timestamp |-> rows[i].last_message_time]]

\* jid.endswith("@g.us") or "group" in jid.lower()
IsGroup(jid) ==
    \/ Len(jid) >= 2 /\ jid[Len(jid) - 1] = "@" /\ jid[Len(jid)] = "g.us"
    \/ \E i \in 1..Len(jid) : jid[i] \in {"group", "Group", "GROUP"}

\* self._get_contact_name(jid): self.contacts_cache.get(jid)
GetContactName(cache, jid) == IF jid \in DOMAIN cache THEN cache[jid] ELSE Null

\* _get_group_participants: queries, normalized join / group_participants
ParticipantQueries ==
    <<{Select({"group_participant_user", "jid", "group_participant", "chat"}, {},
              {<<"jid", "raw_string">>, <<"jid", "_id">>,
               <<"group_participant_user", "jid_row_id">>,
               <<"group_participant_user", "group_participant_row_id">>,
               <<"group_participant", "_id">>,
               <<"group_participant", "group_jid_row_id">>,
               <<"chat", "jid_row_id">>}),
       Select({"jid"}, {"group_participant_user", "jid", "group_participant", "chat"},
              Unqualified({"_id", "raw_string"}))},
      {Select({"group_participants"}, {}, Unqualified({"jid", "gjid"}))}>>

\* the jids fetched by variant v of _get_group_participants for group_jid
ParticipantRows(db, v, group_jid) ==
    IF v = 1
    THEN LET js   == Range(db.tables["jid"].rows)
             gids == {j._id : j \in {x \in js : x.raw_string = group_jid}}
             us   == SelectSeq(db.tables["group_participant_user"].rows,
                        LAMBDA u :
                            /\ \E j \in js : j._id = u.jid_row_id
                            /\ \E g \in Range(db.tables["group_participant"].rows) :
                                /\ g._id = u.group_participant_row_id
                                /\ g.group_jid_row_id \in gids
                                /\ \E c \in Range(db.tables["chat"].rows) :
                                        c.jid_row_id = g.group_jid_row_id)
         IN  [i \in 1..Len(us) |-> (CHOOSE j \in js : j._id = us[i].jid_row_id).raw_string]
    ELSE LET rows == SelectSeq(db.tables["group_participants"].rows,
                               LAMBDA r : r.gjid = group_jid)
         IN  [i \in 1..Len(rows) |-> rows[i].jid]

\* self._get_group_participants(group_jid): the first variant that executes
\* supplies the list; the list stays empty when none does
GetGroupParticipants(db, group_jid) ==
    LET ex == Probe(db, "msgstore", ParticipantQueries, 1) IN
    IF ProbeEnd(ex) = "ok" THEN ParticipantRows(db, ex[Len(ex)].variant, group_jid)
    ELSE <<>>

\* Chat(...) built by the row loop of get_chats from one fetched row;
\* participants are looked up when is_group
ChatOf(db, row, cache, v) ==
    [jid |-> row.jid,
     participants |-> IF IsGroup(row.jid) THEN GetGroupParticipants(db, row.jid) ELSE <<>>,
     display_name |-> IF Truthy(row.display_name) THEN row.display_name
                      ELSE GetContactName(cache, row.jid),
     last_message_timestamp |-> row.last_message_timestamp,
     is_group |-> IsGroup(row.jid),
     variant |-> v]

\* a limit argument: None, or an integer
NoLimit == [given |-> FALSE, n |-> 0]

Limit(n) == [given |-> TRUE, n |-> n]

\* the rows fetched by variant v of get_messages: WHERE key_remote_jid = ? when
\* chat_jid is truthy, ORDER BY timestamp ASC, LIMIT n when limit is truthy
\* (a negative LIMIT is no limit)
MessageRows(db, v, chat_jid, limit) ==
    LET all      == db.tables[IF v = 3 THEN "messages" ELSE "message"].rows
        filtered == IF Truthy(chat_jid)
                    THEN SelectSeq(all, LAMBDA m : m.key_remote_jid = chat_jid)
                    ELSE all
        sorted   == SortSeq(filtered, LAMBDA a, b : a.timestamp < b.timestamp)
    IN  IF limit.given /\ limit.n > 0 THEN Take(sorted, limit.n) ELSE sorted

\* Message(...) built by the row loop of get_messages
MessageOf(row, v) ==
    [message_id |-> row._id, chat_jid |-> row.key_remote_jid,
     timestamp |-> row.timestamp, variant |-> v]

\* the number of rows fetched by variant v of get_call_logs
CallRowCount(db, v) ==
    IF v = 1
    THEN Len(SelectSeq(db.tables["call_log"].rows,
                LAMBDA c : \E j \in Range(db.tables["jid"].rows) : j._id = c.jid_row_id))
    ELSE Len(db.tables["calls"].rows)

\* the row loop of get_contacts on wa.db: if row['jid']: Contact(jid, display_name)
WaContacts(wa, v) ==
    LET rows == SelectSeq(wa.tables[ContactTables[v]].rows, LAMBDA r : Truthy(r.jid)) IN
    [i \in 1..Len(rows) |-> [jid |-> rows[i].jid, display_name |-> rows[i].display_name]]

\* SELECT DISTINCT: the first occurrence of each value, in order
RECURSIVE Distinct(_)
Distinct(s) ==
    IF s = <<>> THEN <<>>
    ELSE LET d == Distinct(SubSeq(s, 1, Len(s) - 1)) IN
         IF s[Len(s)] \in Range(d) THEN d ELSE Append(d, s[Len(s)])

\* x NOT IN (SELECT jid FROM (SELECT jid FROM contacts LIMIT 1)): true on an
\* empty subquery, never true when x or the subquery's value is NULL
NotInFirstContact(db, x) ==
    LET rows == db.tables["contacts"].rows IN
    IF rows = <<>> THEN TRUE
    ELSE x # Null /\ rows[1].jid # Null /\ x # rows[1].jid

\* the jids fetched by the msgstore.db query of get_contacts
MessageJids(db) ==
    LET ms == db.tables["message"].rows
        ks == [i \in 1..Len(ms) |-> ms[i].key_remote_jid]
    IN  Distinct(SelectSeq(ks, LAMBDA x : NotInFirstContact(db, x)))

\* for jid in jids: if not any(c.jid == jid for c in contacts): append Contact(jid)
RECURSIVE AddMissing(_, _)
AddMissing(contacts, jids) ==
    IF jids = <<>> THEN contacts
    ELSE LET j == jids[1]
             c == IF \E i \in 1..Len(contacts) : contacts[i].jid = j THEN contacts
                  ELSE Append(contacts, [jid |-> j, display_name |-> Null])
         IN  AddMissing(c, SubSeq(jids, 2, Len(jids)))

\* _load_contacts row loop: if jid: self.contacts_cache[jid] = display_name or ""
RECURSIVE CacheFrom(_, _)
CacheFrom(rows, n) ==
    IF n = 0 THEN <<>>
    ELSE LET prev == CacheFrom(rows, n - 1) IN
         IF ~ Truthy(rows[n].jid) THEN prev
         ELSE (rows[n].jid :> (IF Truthy(rows[n].display_name)
                               THEN rows[n].display_name ELSE Empty)) @@ prev

\* ------------------------------------------------- parser: database files
JidA == <<"1234567890", "@", "s.whatsapp.net">>

JidB == <<"5550001", "@", "s.whatsapp.net">>

JidG == <<"120363", "@", "g.us">>

\* a jid of a single user whose local part contains the word group
JidN == <<"family", "group", "@", "s.whatsapp.net">>

Sqlite(tables) == [st |-> "sqlite", tables |-> tables]

ChatColsSimple == {"_id", "jid_row_id", "subject", "last_message_row_id"}

ChatColsModern ==
    ChatColsSimple \cup {"last_message_table_row_id", "last_read_message_table_row_id"}

JidRows == <<[_id |-> 1, raw_string |-> JidA], [_id |-> 2, raw_string |-> JidG]>>

ChatTableRows ==
    <<[_id |-> 1, jid_row_id |-> 1, subject |-> <<"Test Chat">>, last_message_table_row_id |-> 3],
      [_id |-> 2, jid_row_id |-> 2, subject |-> Null, last_message_table_row_id |-> 2]>>

\* messages of JidA, and of JidB, which has no chat and no contact row
MessageTableRows ==
    <<[_id |-> 1, key_remote_jid |-> JidA, timestamp |-> 30],
      [_id |-> 2, key_remote_jid |-> JidB, timestamp |-> 10],
      [_id |-> 3, key_remote_jid |-> JidA, timestamp |-> 20]>>

LegacyMessageRows ==
    <<[_id |-> 7, key_remote_jid |-> JidB, timestamp |-> 5],
      [_id |-> 8, key_remote_jid |-> JidA, timestamp |-> 4]>>

ChatListRows ==
    <<[_id |-> 1, jid |-> JidA, subject |-> <<"Old Chat">>, last_message_time |-> 4],
      [_id |-> 2, jid |-> JidB, subject |-> Null, last_message_time |-> 5]>>

\* the schema created by tests/test_parsing.py: chat, jid, message
TestTables ==
    ("chat" :> Table(ChatColsSimple, ChatTableRows))
        @@ ("jid" :> Table({"_id", "raw_string"}, JidRows))
        @@ ("message" :> Table(MessageColsSimple, MessageTableRows))

\* the modern generation: normalized jid table, all chat and message columns
ModernTables ==
    ("chat" :> Table(ChatColsModern, ChatTableRows))
        @@ ("jid" :> Table({"_id", "raw_string"}, JidRows))
        @@ ("message" :> Table(MessageColsFull, MessageTableRows))

\* the legacy generation: chat_list and messages only
LegacyTables ==
    ("chat_list" :> Table({"_id", "jid", "subject", "last_message_time"}, ChatListRows))
        @@ ("messages" :> Table(MessageColsSimple \cup {"media_name"}, LegacyMessageRows))

\* three chats, one of them JidN, with the flat group_participants table
GroupTables ==
    ("chat" :> Table(ChatColsSimple,
                     Append(ChatTableRows,
                            [_id |-> 3, jid_row_id |-> 3, subject |-> <<"Family">>,
                             last_message_table_row_id |-> 1])))
        @@ ("jid" :> Table({"_id", "raw_string"},
                           JidRows \o <<[_id |-> 3, raw_string |-> JidN],
                                        [_id |-> 4, raw_string |-> JidB]>>))
        @@ ("message" :> Table(MessageColsSimple, MessageTableRows))
        @@ ("group_participants" :> Table({"gjid", "jid"},
                <<[gjid |-> JidG, jid |-> JidA], [gjid |-> JidN, jid |-> JidB],
                  [gjid |-> JidG, jid |-> JidB]>>))

\* the modern generation with the normalized participant tables: JidA is
\* the one participant of group JidG
ModernGroupTables ==
    ModernTables
        @@ ("group_participant" :> Table({"_id", "group_jid_row_id"},
                                         <<[_id |-> 1, group_jid_row_id |-> 2]>>))
        @@ ("group_participant_user" :> Table({"jid_row_id", "group_participant_row_id"},
                <<[jid_row_id |-> 1, group_participant_row_id |-> 1]>>))

CallTableCols == CallCols \cup {"_id", "jid"}

CallLogCols == CallCols \cup {"_id", "jid_row_id"}

CallTable(rows) == "calls" :> Table(CallTableCols, rows)

CallLogTable(cols) ==
    "call_log" :> Table(cols, <<[_id |-> 1, jid_row_id |-> 1, timestamp |-> 40]>>)

\* a contacts table inside msgstore.db
MsgContactsTable(rows) == "contacts" :> Table({"jid"}, rows)

MsgstoreDbs ==
    {Sqlite(TestTables),
     Sqlite(ModernTables),
     Sqlite(LegacyTables),
     Sqlite(LegacyTables @@ ("message" :> Table(MessageColsSimple, MessageTableRows))),
     Sqlite(TestTables @@ CallTable(<<>>)),
     Sqlite(TestTables @@ CallTable(<<[_id |-> 1, jid |-> JidA, timestamp |-> 40]>>)),
     Sqlite(TestTables @@ CallLogTable(CallLogCols)),
     Sqlite(ModernTables @@ CallLogTable(CallLogCols \ {"_id"})),
     Sqlite(TestTables @@ MsgContactsTable(<<>>)),
     Sqlite(TestTables @@ MsgContactsTable(<<[jid |-> JidB]>>)),
     Sqlite(TestTables @@ MsgContactsTable(<<[jid |-> Null]>>)),
     Sqlite(("chat" :> Table(ChatColsSimple, ChatTableRows))
                @@ ("jid" :> Table({"_id", "raw_string"},
                                   <<[_id |-> 1, raw_string |-> Null]>>))
                @@ ("message" :> Table(MessageColsSimple, MessageTableRows))),
     Sqlite(GroupTables),
     Sqlite(ModernGroupTables),
     Sqlite("android_metadata" :> Table({"locale"}, <<>>)),
     [st |-> "notadb", tables |-> <<>>],
     [st |-> "ioerr", tables |-> TestTables]}

WaRows ==
    <<[jid |-> JidA, display_name |-> <<"Test Contact">>],
      [jid |-> JidG, display_name |-> Null],
      [jid |-> JidA, display_name |-> <<"Uno">>],
      [jid |-> Null, display_name |-> <<"Nobody">>]>>

\* the contacts database: wa_contacts as in tests/test_parsing.py (here with a
\* repeated jid and a NULL jid), the two other table names, a foreign schema,
\* a file that is no database; NoDb when none is supplied
WaDbs ==
    {Sqlite("wa_contacts" :> Table({"jid", "display_name"}, WaRows)),
     Sqlite("contacts" :> Table({"jid", "display_name"},
                                <<[jid |-> JidB, display_name |-> Empty]>>)),
     Sqlite("user" :> Table({"jid", "display_name"},
                            <<[jid |-> JidG, display_name |-> <<"Team">>]>>)),
     Sqlite(("contacts" :> Table({"jid", "display_name"},
                                 <<[jid |-> JidG, display_name |-> <<"Family Chat">>]>>))
                @@ ("user" :> Table({"jid", "display_name"},
                                    <<[jid |-> JidG, display_name |-> <<"Team">>]>>))),
     Sqlite("android_metadata" :> Table({"locale"}, <<>>)),
     [st |-> "notadb", tables |-> <<>>]}

\* arguments of get_messages: (chat_jid, limit)
MessageArgs ==
    {<<Null, NoLimit>>, <<JidA, NoLimit>>, <<Null, Limit(1)>>,
     <<Empty, NoLimit>>, <<JidA, Limit(0)>>}

\* the arguments of get_chat_with_messages that are tried
ChatWithMessagesArgs == {<<JidA, NoLimit>>, <<JidG, Limit(1)>>}

\* ----------------------------------------------------- parser: operations
\* the record of one call: what it returned or raised, the variants it
\* executed, and the connections it opened without closing
Call(op_, chat_jid, limit, ret_, result, executed, leaked) ==
    [op |-> op_, chat_jid |-> chat_jid, limit |-> limit, ret |-> ret_,
     result |-> result, executed |-> executed, leaked |-> leaked]

\* get_chats(): an exception of the loop reaches "except Exception: raise"
\* past conn.close()
GetChats(db, cache) ==
    LET ex  == Probe(db, "msgstore", ChatQueries, 1)
        end == ProbeEnd(ex)
    IN  IF end = "ok"
        THEN LET v    == ex[Len(ex)].variant
                 rows == ChatRows(db, v)
             IN  IF \E i \in 1..Len(rows) : rows[i].jid = Null
                 THEN Call("get_chats", Null, NoLimit, "AttributeError", <<>>, ex, 1)
                 ELSE Call("get_chats", Null, NoLimit, "list",
                           [i \in 1..Len(rows) |-> ChatOf(db, rows[i], cache, v)], ex, 0)
        ELSE IF end = "exhausted"
        THEN Call("get_chats", Null, NoLimit, "list", <<>>, ex, 0)
        ELSE Call("get_chats", Null, NoLimit, ExceptionOf(end), <<>>, ex, 1)

\* get_messages(chat_jid, limit)
GetMessages(db, chat_jid, limit) ==
    LET ex  == Probe(db, "msgstore", MessageQueries, 1)
        end == ProbeEnd(ex)
    IN  IF end = "ok"
        THEN LET v    == ex[Len(ex)].variant
                 rows == MessageRows(db, v, chat_jid, limit)
             IN  Call("get_messages", chat_jid, limit, "list",
                      [i \in 1..Len(rows) |-> MessageOf(rows[i], v)], ex, 0)
        ELSE IF end = "exhausted"
        THEN Call("get_messages", chat_jid, limit, "list", <<>>, ex, 0)
        ELSE Call("get_messages", chat_jid, limit, ExceptionOf(end), <<>>, ex, 1)

\* get_chat_with_messages(chat_jid, message_limit): the Chat of get_chats()
\* with that jid, its messages set to get_messages(chat_jid, message_limit);
\* ValueError when get_chats() has no such chat; the exceptions of both calls
\* pass through
GetChatWithMessages(db, cache, chat_jid, limit) ==
    LET cs    == GetChats(db, cache)
        found == SelectSeq(cs.result, LAMBDA c : c.jid = chat_jid)
        ms    == GetMessages(db, chat_jid, limit)
    IN  IF cs.ret # "list"
        THEN Call("get_chat_with_messages", chat_jid, limit, cs.ret, <<>>,
                  cs.executed, cs.leaked)
        ELSE IF found = <<>>
        THEN Call("get_chat_with_messages", chat_jid, limit, "ValueError", <<>>,
                  cs.executed, 0)
        ELSE IF ms.ret # "list"
        THEN Call("get_chat_with_messages", chat_jid, limit, ms.ret, <<>>,
                  cs.executed \o ms.executed, ms.leaked)
        ELSE Call("get_chat_with_messages", chat_jid, limit, "Chat",
                  <<[chat |-> found[1], messages |-> ms.result]>>,
                  cs.executed \o ms.executed, 0)

\* get_call_logs(): the row loop calls row.get(), which sqlite3.Row does not
\* have; that AttributeError and any database error are logged by
\* "except Exception" and the list built so far is returned, past conn.close()
GetCallLogs(db) ==
    LET ex  == Probe(db, "msgstore", CallQueries, 1)
        end == ProbeEnd(ex)
    IN  IF end = "ok"
        THEN Call("get_call_logs", Null, NoLimit, "list", <<>>, ex,
                  IF CallRowCount(db, ex[Len(ex)].variant) > 0 THEN 1 ELSE 0)
        ELSE IF end = "exhausted"
        THEN Call("get_call_logs", Null, NoLimit, "list", <<>>, ex, 0)
        ELSE Call("get_call_logs", Null, NoLimit, "list", <<>>, ex, 1)

\* get_contacts(): the rows of wa.db when self.wa_db is set, then the jids of
\* the message table that are not among them; each part logs any exception
\* that is not an OperationalError and goes on, past its conn.close()
GetContacts(db, wa, with_wa) ==
    LET ex1  == IF with_wa THEN Probe(wa, "wa", ContactQueries, 1) ELSE <<>>
        end1 == IF with_wa THEN ProbeEnd(ex1) ELSE "exhausted"
        c1   == IF end1 = "ok" THEN WaContacts(wa, ex1[Len(ex1)].variant) ELSE <<>>
        o2   == Execute(db, MessageJidQuery)
        ex2  == <<[db |-> "msgstore", variant |-> 1, outcome |-> o2]>>
        c2   == IF o2 = "ok" THEN AddMissing(c1, MessageJids(db)) ELSE c1
        leak == (IF end1 \in {"ok", "exhausted"} THEN 0 ELSE 1)
                    + (IF o2 = "ok" \/ IsOperationalError(o2) THEN 0 ELSE 1)
    IN  Call("get_contacts", Null, NoLimit, "list", c2, ex1 \o ex2, leak)

\* _load_contacts(): the cache and the connections left open
LoadContacts(wa) ==
    LET ex  == Probe(wa, "wa", ContactQueries, 1)
        end == ProbeEnd(ex)
    IN  IF end = "ok"
        THEN LET rows == wa.tables[ContactTables[ex[Len(ex)].variant]].rows IN
             [cache |-> CacheFrom(rows, Len(rows)), leaked |-> 0]
        ELSE [cache |-> <<>>, leaked |-> IF end = "exhausted" THEN 0 ELSE 1]

\* WhatsAppParser(msgstore_db, wa_db)
NewParser ==
    /\ parser = "none"
    /\ \E db \in MsgstoreDbs \cup {NoDb}, wa \in WaDbs \cup {NoDb} :
        /\ msgstore_db' = db
        /\ wa_db' = wa
        /\ IF db.st = "missing"
           THEN /\ parser' = "FileNotFoundError"
                /\ UNCHANGED <<has_wa, contacts_cache, open_conns>>
           ELSE /\ parser' = "ok"
                /\ has_wa' = (wa.st # "missing")
                /\ IF wa.st # "missing"
                   THEN /\ contacts_cache' = LoadContacts(wa).cache
                        /\ open_conns' = LoadContacts(wa).leaked
                   ELSE UNCHANGED <<contacts_cache, open_conns>>
    /\ UNCHANGED <<calls, not_parser_vars>>

\* the bookkeeping common to the four operations
Returned(c) ==
    /\ calls' = Append(calls, c)
    /\ open_conns' = open_conns + c.leaked
    /\ UNCHANGED <<parser, msgstore_db, wa_db, has_wa, contacts_cache, not_parser_vars>>

CanCall == parser = "ok" /\ Len(calls) < MaxCalls

\* parser.get_chats()
CallGetChats == CanCall /\ Returned(GetChats(msgstore_db, contacts_cache))

\* parser.get_messages(chat_jid, limit)
CallGetMessages ==
    /\ CanCall
    /\ \E a \in MessageArgs : Returned(GetMessages(msgstore_db, a[1], a[2]))

\* parser.get_chat_with_messages(chat_jid, message_limit)
CallGetChatWithMessages ==
    /\ CanCall
    /\ \E a \in ChatWithMessagesArgs :
            Returned(GetChatWithMessages(msgstore_db, contacts_cache, a[1], a[2]))

\* parser.get_call_logs()
CallGetCallLogs == CanCall /\ Returned(GetCallLogs(msgstore_db))

\* parser.get_contacts()
CallGetContacts == CanCall /\ Returned(GetContacts(msgstore_db, wa_db, has_wa))

\* a connection object that was never closed is closed when the interpreter
\* reclaims it, at a time the program does not control
Finalize ==
    /\ parser = "ok" /\ open_conns > 0
    /\ open_conns' = open_conns - 1
    /\ UNCHANGED <<parser, msgstore_db, wa_db, has_wa, contacts_cache, calls, not_parser_vars>>

ParserNext ==
    \/ NewParser
    \/ CallGetChats
    \/ CallGetMessages
    \/ CallGetChatWithMessages
    \/ CallGetCallLogs
    \/ CallGetContacts
    \/ Finalize

ParserSpec == Init /\ [][ParserNext]_vars

\* ------------------------------------------------------- Contact entity
\* Contact objects constructed
MaxContacts == 2

\* jid.split("@")[0] if "@" in jid else jid
PhoneOf(jid) ==
    LET ats == {i \in 1..Len(jid) : jid[i] = "@"} IN
    IF ats = {} THEN jid
    ELSE SubSeq(jid, 1, (CHOOSE i \in ats : \A j \in ats : i <= j) - 1)

\* Contact.__post_init__: phone_number is derived when it is None and jid is
\* not empty
PostInit(c) ==
    IF c.phone_number = Null /\ Truthy(c.jid)
    THEN [c EXCEPT !.phone_number = PhoneOf(c.jid)]
    ELSE c

\* the jids and phone_number arguments that are tried
ContactJids == {JidA, JidG, <<"broadcast">>, Empty, <<"a", "@", "b", "@", "c">>}
PhoneArgs == {Null, <<"+265991234567">>}

\* Contact(jid=..., phone_number=...); supplied records whether the caller
\* passed a phone_number (it is not a field of the dataclass)
NewContact ==
    /\ Len(contact_objs) < MaxContacts
    /\ \E jid \in ContactJids, phone \in PhoneArgs :
        contact_objs' = Append(contact_objs,
            PostInit([jid |-> jid, display_name |-> Null, phone_number |-> phone,
                      supplied |-> (phone # Null)]))
    /\ UNCHANGED <<decryptor_vars, parser_vars, custody_vars, compliance_vars>>

\* contact.jid = jid: the dataclass is not frozen and has no __setattr__, so
\* the assignment changes the one field
SetJid ==
    /\ \E i \in 1..Len(contact_objs), jid \in ContactJids :
        /\ contact_objs[i].jid # jid
        /\ contact_objs' = [contact_objs EXCEPT ![i].jid = jid]
    /\ UNCHANGED <<decryptor_vars, parser_vars, custody_vars, compliance_vars>>

ContactNext == NewContact \/ SetJid

ContactSpec == Init /\ [][ContactNext]_vars

\* ------------------------------------------------------ chain of custody
\* evidence items added to one chain of custody
MaxItems == 2

\* entries of one custody chain, the acquired entry included
MaxChain == 2

\* the contents an evidence file can have
Contents == {<<"v1">>, <<"v2">>}

EvidenceTypes == {"database", "key"}

\* the (filepath, evidence_type) arguments of add_evidence that are tried
EvidenceArgs == {<<"msgstore.db", "database">>, <<"key", "key">>}

\* hashlib.md5(...).hexdigest() and hashlib.sha256(...).hexdigest() of a
\* content: two digests, different contents having different digests
Md5(content) == <<"md5">> \o content

Sha256(content) == <<"sha256">> \o content

\* _calculate_hashes(filepath) on the file system fs
CalculateHashes(fs, filepath) ==
    [md5 |-> Md5(fs[filepath]), sha256 |-> Sha256(fs[filepath])]

\* an item_id that ignores the number of items
ItemIdMut(evidence_type, n) == <<"CASE", evidence_type, 1>>

\* f"{self.case_id}_{evidence_type}_{len(self.evidence_items) + 1:04d}"
ItemId(evidence_type, n) == <<"CASE", evidence_type, n>>

\* the position of item_id in the dict, 0 when it is not a key
IndexOf(items, item_id) ==
    IF \E i \in 1..Len(items) : items[i].item_id = item_id
    THEN CHOOSE i \in 1..Len(items) : items[i].item_id = item_id
    ELSE 0

\* self.evidence_items[item.item_id] = item: a new key is appended, an
\* existing key keeps its place and gets the new value
Put(items, item) ==
    IF IndexOf(items, item.item_id) = 0 THEN Append(items, item)
    ELSE [items EXCEPT ![IndexOf(items, item.item_id)] = item]

\* _save_chain: the JSON document written to chain_log_file
SaveChain(items) == [exists |-> TRUE, evidence_items |-> items]

\* _load_chain: the items of the document, keyed by item_id
RECURSIVE LoadItems(_, _)
LoadItems(saved, n) ==
    IF n = 0 THEN <<>> ELSE Put(LoadItems(saved, n - 1), saved[n])

LoadChain(file) ==
    IF ~ file.exists THEN <<>>
    ELSE LoadItems(file.evidence_items, Len(file.evidence_items))

\* the record of one step
Step(op_, item_id, ret_) ==
    [op |-> op_, item_id |-> item_id, ret |-> ret_,
     items_before |-> evidence_items, log_before |-> chain_log_file]

\* ChainOfCustody(case_id, examiner, output_dir): a new tracker for the case,
\* also in a later session when chain_log_file exists already
NewChainOfCustody ==
    /\ custody' = "ok"
    /\ evidence_items' = LoadChain(chain_log_file)
    /\ custody_ret' = Step("init", <<>>, "ChainOfCustody")
    /\ UNCHANGED <<files, chain_log_file, acquired>>
    /\ UNCHANGED <<decryptor_vars, parser_vars, entity_vars, compliance_vars>>

\* add_evidence(filepath, description, evidence_type)
AddEvidence ==
    /\ custody = "ok" /\ Len(evidence_items) < MaxItems
    /\ \E a \in EvidenceArgs :
        LET filepath      == a[1]
            evidence_type == a[2]
        IN
        IF files[filepath] = Absent
        THEN /\ custody_ret' = Step("add_evidence", <<>>, "FileNotFoundError")
             /\ UNCHANGED <<evidence_items, chain_log_file, acquired>>
        ELSE LET item_id  == ItemId(evidence_type, Len(evidence_items) + 1)
                 hashes   == CalculateHashes(files, filepath)
                 evidence == [item_id |-> item_id, filepath |-> filepath,
                              hash_md5 |-> hashes.md5, hash_sha256 |-> hashes.sha256,
                              evidence_type |-> evidence_type,
                              custody_chain |-> <<[action |-> "acquired",
                                                   handler |-> "examiner"]>>]
             IN  /\ evidence_items' = Put(evidence_items, evidence)
                 /\ chain_log_file' = SaveChain(evidence_items')
                 /\ acquired' = (item_id :> files[filepath]) @@ acquired
                 /\ custody_ret' = Step("add_evidence", item_id, "EvidenceItem")
    /\ UNCHANGED <<custody, files>>
    /\ UNCHANGED <<decryptor_vars, parser_vars, entity_vars, compliance_vars>>

\* the item_ids that are passed to verify_integrity and add_custody_entry
ItemIds == {ItemId(t, n) : t \in EvidenceTypes, n \in 1..MaxItems}

\* a verification that never reads the file
VerifyIntegrityMut(items, fs, item_id) ==
    IF IndexOf(items, item_id) = 0 THEN "ValueError" ELSE "True"

\* verify_integrity(item_id) on file system fs
VerifyIntegrity(items, fs, item_id) ==
    IF IndexOf(items, item_id) = 0 THEN "ValueError"
    ELSE LET evidence == items[IndexOf(items, item_id)]
             current  == CalculateHashes(fs, evidence.filepath)
         IN  IF fs[evidence.filepath] = Absent THEN "False"
             ELSE IF current.md5 # evidence.hash_md5
                        \/ current.sha256 # evidence.hash_sha256
             THEN "False"
             ELSE "True"

\* chain.verify_integrity(item_id)
CallVerifyIntegrity ==
    /\ custody = "ok"
    /\ \E item_id \in ItemIds :
        custody_ret' = Step("verify_integrity", item_id,
                            VerifyIntegrity(evidence_items, files, item_id))
    /\ UNCHANGED <<custody, files, evidence_items, chain_log_file, acquired>>
    /\ UNCHANGED <<decryptor_vars, parser_vars, entity_vars, compliance_vars>>

\* add_custody_entry(item_id, action, handler)
AddCustodyEntry ==
    /\ custody = "ok"
    /\ \E item_id \in ItemIds, action \in {"examined"} :
        LET i == IndexOf(evidence_items, item_id) IN
        IF i = 0
        THEN /\ custody_ret' = Step("add_custody_entry", item_id, "ValueError")
             /\ UNCHANGED <<evidence_items, chain_log_file>>
        ELSE /\ Len(evidence_items[i].custody_chain) < MaxChain
             /\ evidence_items' =
                    [evidence_items EXCEPT ![i].custody_chain =
                        Append(@, [action |-> action, handler |-> "examiner"])]
             /\ chain_log_file' = SaveChain(evidence_items')
             /\ custody_ret' = Step("add_custody_entry", item_id, "None")
    /\ UNCHANGED <<custody, files, acquired>>
    /\ UNCHANGED <<decryptor_vars, parser_vars, entity_vars, compliance_vars>>

\* the environment writes an evidence file: creates it or changes its content
WriteFile ==
    /\ \E filepath \in DOMAIN files, content \in Contents :
        /\ files[filepath] # content
        /\ files' = [files EXCEPT ![filepath] = content]
    /\ custody_ret' = Step("write", <<>>, "None")
    /\ UNCHANGED <<custody, evidence_items, chain_log_file, acquired>>
    /\ UNCHANGED <<decryptor_vars, parser_vars, entity_vars, compliance_vars>>

\* the environment deletes an evidence file
DeleteFile ==
    /\ \E filepath \in DOMAIN files :
        /\ files[filepath] # Absent
        /\ files' = [files EXCEPT ![filepath] = Absent]
    /\ custody_ret' = Step("delete", <<>>, "None")
    /\ UNCHANGED <<custody, evidence_items, chain_log_file, acquired>>
    /\ UNCHANGED <<decryptor_vars, parser_vars, entity_vars, compliance_vars>>

CustodyNext ==
    \/ NewChainOfCustody
    \/ AddEvidence
    \/ CallVerifyIntegrity
    \/ AddCustodyEntry
    \/ WriteFile
    \/ DeleteFile

CustodySpec == Init /\ [][CustodyNext]_vars

\* --------------------------------------------------- compliance checker
\* calls of the compliance checker that are recorded
MaxChecks == 4

\* an entry of compliance_issues or compliance_warnings
Entry(subject, severity) == [subject |-> subject, severity |-> severity]

\* Python's bool as text
Bool(b) == IF b THEN "True" ELSE "False"

\* check_acpo_principles(has_audit_trail, original_preserved) on a checker
\* holding the lists issues and warnings
CheckAcpoPrinciples(issues, warnings, has_audit_trail, original_preserved) ==
    LET i1 == IF ~ original_preserved
              THEN Append(issues, Entry("ACPO Principle 1", "high")) ELSE issues
        i2 == IF ~ has_audit_trail
              THEN Append(i1, Entry("ACPO Principle 3", "high")) ELSE i1
    IN  [issues |-> i2, warnings |-> warnings,
         ret |-> Bool(~ (~ original_preserved \/ ~ has_audit_trail))]

\* check_gdpr_compliance(has_legal_basis, data_minimization,
\* purpose_limitation, retention_period): warnings only, compliant stays True
CheckGdprCompliance(issues, warnings, has_legal_basis, data_minimization, purpose_limitation, retention_period) ==
    LET w1 == IF ~ has_legal_basis
              THEN Append(warnings, Entry("GDPR Article 6", "medium")) ELSE warnings
        w2 == IF ~ data_minimization
              THEN Append(w1, Entry("GDPR Article 5(1)(c)", "medium")) ELSE w1
        w3 == IF ~ purpose_limitation
              THEN Append(w2, Entry("GDPR Article 5(1)(b)", "medium")) ELSE w2
        w4 == IF retention_period > 365
              THEN Append(w3, Entry("GDPR Article 5(1)(e)", "low")) ELSE w3
    IN  [issues |-> issues, warnings |-> w4, ret |-> Bool(TRUE)]

\* check_chain_of_custody(has_custody_log, all_transfers_documented,
\* integrity_verified): the undocumented-transfers branch appends an issue
\* and does not clear compliant
CheckChainOfCustody(issues, warnings, has_custody_log, all_transfers_documented, integrity_verified) ==
    LET i1 == IF ~ has_custody_log
              THEN Append(issues, Entry("Chain of custody log missing", "high")) ELSE issues
        i2 == IF ~ all_transfers_documented
              THEN Append(i1, Entry("Not all evidence transfers are documented", "medium"))
              ELSE i1
        w1 == IF ~ integrity_verified
              THEN Append(warnings, Entry("Evidence integrity not verified", "medium"))
              ELSE warnings
    IN  [issues |-> i2, warnings |-> w1, ret |-> Bool(has_custody_log)]

\* check_hash_integrity(has_hash_verification, hashes_stored)
CheckHashIntegrity(issues, warnings, has_hash_verification, hashes_stored) ==
    LET i1 == IF ~ has_hash_verification
              THEN Append(issues, Entry("Hash Verification", "high")) ELSE issues
        i2 == IF ~ hashes_stored
              THEN Append(i1, Entry("Hash Storage", "high")) ELSE i1
    IN  [issues |-> i2, warnings |-> warnings,
         ret |-> Bool(~ (~ has_hash_verification \/ ~ hashes_stored))]

\* generate_compliance_report(): the counts and the overall status
GenerateComplianceReport(issues, warnings) ==
    [total_issues |-> Len(issues), total_warnings |-> Len(warnings),
     high_severity_issues |-> Len(SelectSeq(issues, LAMBDA i : i.severity = "high")),
     overall_status |-> IF Len(issues) = 0 THEN "compliant" ELSE "non-compliant"]

\* the arguments that are tried
AcpoArgs == {<<TRUE, TRUE>>, <<FALSE, TRUE>>, <<TRUE, FALSE>>}
GdprArgs == {<<TRUE, TRUE, TRUE, 0>>, <<FALSE, TRUE, TRUE, 400>>}
CustodyArgs == {<<TRUE, TRUE, TRUE>>, <<FALSE, TRUE, TRUE>>, <<TRUE, FALSE, TRUE>>,
                <<TRUE, TRUE, FALSE>>}
HashArgs == {<<TRUE, TRUE>>, <<FALSE, TRUE>>}

\* the record of one call: the check, its arguments, what it returned, and
\* the report a generate_compliance_report() right after it gives
Checked(check, args, r) ==
    [check |-> check, args |-> args, ret |-> r.ret,
     report |-> GenerateComplianceReport(r.issues, r.warnings)]

\* the bookkeeping of a call whose outcome is r
Ran(check, args, r) ==
    /\ compliance_issues' = r.issues
    /\ compliance_warnings' = r.warnings
    /\ checks' = Append(checks, Checked(check, args, r))
    /\ UNCHANGED checker
    /\ UNCHANGED <<decryptor_vars, parser_vars, entity_vars, custody_vars>>

\* ComplianceChecker(case_id)
NewComplianceChecker ==
    /\ checker = "none"
    /\ checker' = "ok"
    /\ UNCHANGED <<compliance_issues, compliance_warnings, checks>>
    /\ UNCHANGED <<decryptor_vars, parser_vars, entity_vars, custody_vars>>

CanCheck == checker = "ok" /\ Len(checks) < MaxChecks

CallCheckAcpoPrinciples ==
    /\ CanCheck
    /\ \E a \in AcpoArgs :
        Ran("check_acpo_principles", a,
            CheckAcpoPrinciples(compliance_issues, compliance_warnings, a[1], a[2]))

CallCheckGdprCompliance ==
    /\ CanCheck
    /\ \E a \in GdprArgs :
        Ran("check_gdpr_compliance", a,
            CheckGdprCompliance(compliance_issues, compliance_warnings,
                                a[1], a[2], a[3], a[4]))

CallCheckChainOfCustody ==
    /\ CanCheck
    /\ \E a \in CustodyArgs :
        Ran("check_chain_of_custody", a,
            CheckChainOfCustody(compliance_issues, compliance_warnings, a[1], a[2], a[3]))

CallCheckHashIntegrity ==
    /\ CanCheck
    /\ \E a \in HashArgs :
        Ran("check_hash_integrity", a,
            CheckHashIntegrity(compliance_issues, compliance_warnings, a[1], a[2]))

\* generate_compliance_report(): reads the lists
CallGenerateComplianceReport ==
    /\ CanCheck
    /\ Ran("generate_compliance_report", <<>>,
           [issues |-> compliance_issues, warnings |-> compliance_warnings,
            ret |-> GenerateComplianceReport(compliance_issues,
                                             compliance_warnings).overall_status])

\* ForensicToolkit.check_compliance(): the three checks with the arguments it
\* derives from the audit log and the custody chain, then the report
CheckCompliance ==
    /\ checker = "ok" /\ Len(checks) + 4 <= MaxChecks
    /\ \E has_audit_trail \in BOOLEAN, has_custody_log \in BOOLEAN, all_verified \in BOOLEAN :
        LET a1 == <<has_audit_trail, TRUE>>
            a2 == <<has_custody_log, TRUE, all_verified>>
            a3 == <<TRUE, TRUE>>
            r1 == CheckAcpoPrinciples(compliance_issues, compliance_warnings, a1[1], a1[2])
            r2 == CheckChainOfCustody(r1.issues, r1.warnings, a2[1], a2[2], a2[3])
            r3 == CheckHashIntegrity(r2.issues, r2.warnings, a3[1], a3[2])
            r4 == [issues |-> r3.issues, warnings |-> r3.warnings,
                   ret |-> GenerateComplianceReport(r3.issues, r3.warnings).overall_status]
        IN  /\ compliance_issues' = r4.issues
            /\ compliance_warnings' = r4.warnings
            /\ checks' = checks \o <<Checked("check_acpo_principles", a1, r1),
                                      Checked("check_chain_of_custody", a2, r2),
                                      Checked("check_hash_integrity", a3, r3),
                                      Checked("generate_compliance_report", <<>>, r4)>>
    /\ UNCHANGED checker
    /\ UNCHANGED <<decryptor_vars, parser_vars, entity_vars, custody_vars>>

ComplianceNext ==
    \/ NewComplianceChecker
    \/ CallCheckAcpoPrinciples
    \/ CallCheckGdprCompliance
    \/ CallCheckChainOfCustody
    \/ CallCheckHashIntegrity
    \/ CallGenerateComplianceReport
    \/ CheckCompliance

ComplianceSpec == Init /\ [][ComplianceNext]_vars

\* ----------------------------------------------------------------- claims
Crypt14Call == op = "decrypt" /\ enc_type = "CRYPT14"

C2_SyntheticWindow ==
    (pc = "done" /\ op = "decrypt" /\ meta.kind = "crypt14" /\ meta.keyOK) =>
        IF meta.t \in 185..195
        THEN /\ ret = "path"
             /\ tried # <<>>
             /\ tried[Len(tried)] = [offset |-> meta.t, ok |-> TRUE]
             /\ out = [exists |-> TRUE, data |-> meta.plain]
        ELSE /\ ret = "None"
             /\ out = out_before

\* a container with its body at the last candidate, accepted there
C2_Witness ==
    /\ pc = "done" /\ op = "decrypt" /\ meta.kind = "crypt14" /\ meta.keyOK
    /\ meta.t = 195 /\ ret = "path" /\ Len(tried) = 11

CryptTypes == {"CRYPT12", "CRYPT14", "CRYPT15"}

ValidButForFooter ==
    /\ meta.kind \in {"crypt12", "crypt14", "crypt15"}
    /\ meta.keyOK
    /\ meta.kind = "crypt14" => meta.t \in 185..195

C5_NoExceptionPropagates ==
    (pc = "done" /\ op = "decrypt" /\ enc.st # "missing") => ret \in {"path", "None"}

\* C6 as claimed: a constructed decryptor holds a key of exactly 32 bytes.
C6_KeyIs32Bytes ==
    (constructed = "ok") => Len(key) = 32

\* C7: key loading by key file length n.  n = 158: the key is the bytes at
\* offsets 126..158; 32 <= n <= 157: the key is the last 32 bytes; n < 32 or
\* a missing file: the constructor raises, no key is held and no operation of
\* the decryptor ever runs.
C7_KeyByLength ==
    (constructed # "none") =>
        LET n == Len(key_file.data) IN
        IF key_file.st = "missing"
        THEN constructed = "FileNotFoundError" /\ key = <<>> /\ op = "none"
        ELSE IF n < 32
        THEN constructed = "ValueError" /\ key = <<>> /\ op = "none"
        ELSE /\ constructed = "ok"
             /\ (n = 158) => key = [i \in 1..32 |-> key_file.data[126 + i]]
             /\ (n <= 157) => key = [i \in 1..32 |-> key_file.data[n - 32 + i]]

\* a decryptor built from a 157-byte key file, holding its last 32 bytes
C7_Witness ==
    /\ constructed = "ok" /\ Len(key_file.data) = 157
    /\ Len(key) = 32 /\ key[32] = key_file.data[157] /\ key[1] = key_file.data[126]

HasSignature(f) == f.st = "ok" /\ Len(f.data) >= 16 /\ SubSeq(f.data, 1, 16) = SQLiteSignature

\* C8 as claimed: a file whose first 16 bytes are the SQLite signature is
\* classified UNENCRYPTED whatever its extension.
C8_SignatureAlwaysUnencrypted ==
    (pc = "done" /\ op = "detect" /\ HasSignature(enc)) => ret = "UNENCRYPTED"

\* C8 as amended: a file whose first 16 bytes are the SQLite signature is
\* classified UNENCRYPTED unless its extension is .crypt12, .crypt14 or
\* .crypt15, in which case the extension alone decides.
C8_SignatureUnlessCryptSuffix ==
    (pc = "done" /\ op = "detect" /\ HasSignature(enc)) =>
        IF enc.suffix \in {".crypt12", ".crypt14", ".crypt15"}
        THEN ret # "UNENCRYPTED"
        ELSE ret = "UNENCRYPTED"

\* a plaintext database without extension, detected UNENCRYPTED
C8_Witness ==
    /\ pc = "done" /\ op = "detect" /\ HasSignature(enc)
    /\ enc.suffix = "" /\ ret = "UNENCRYPTED"

\* C9: the detection result, for a readable file: .crypt12 -> CRYPT12,
\* .crypt14 -> CRYPT14, .crypt15 -> CRYPT15; any other extension: SQLite
\* signature -> UNENCRYPTED, else first 3 bytes zero -> CRYPT14, else
\* UNENCRYPTED.
C9_DetectionTable ==
    (pc = "done" /\ op = "detect" /\ enc.st = "ok") =>
           (ret =
                IF enc.suffix = ".crypt12" THEN "CRYPT12"
                ELSE IF enc.suffix = ".crypt14" THEN "CRYPT14"
                ELSE IF enc.suffix = ".crypt15" THEN "CRYPT15"
                ELSE IF HasSignature(enc) THEN "UNENCRYPTED"
                ELSE IF Len(enc.data) >= 3 /\ enc.data[1] = 0 /\ enc.data[2] = 0
                        /\ enc.data[3] = 0 THEN "CRYPT14"
                ELSE "UNENCRYPTED")

\* a file without extension that starts with three zero bytes, detected CRYPT14
C9_Witness ==
    /\ pc = "done" /\ op = "detect" /\ enc.suffix = "" /\ enc.st = "ok"
    /\ Len(enc.data) = 3 /\ ret = "CRYPT14"

\* C10: the detector never raises: its result is always an EncryptionType, and
\* a missing, unreadable or empty file whose extension names no format is
\* UNENCRYPTED, as is a file shorter than 16 bytes that does not start with
\* three zero bytes.
C10_DetectorNeverRaises ==
    (pc = "done" /\ op = "detect") =>
        /\ ret \in {"CRYPT12", "CRYPT14", "CRYPT15", "UNENCRYPTED"}
        /\ (/\ enc.suffix \notin {".crypt12", ".crypt14", ".crypt15"}
            /\ \/ enc.st \in {"missing", "unreadable"}
               \/ Len(enc.data) = 0
               \/ (Len(enc.data) < 16 /\ Take(enc.data, 3) # <<0, 0, 0>>))
           => ret = "UNENCRYPTED"

\* the detector called on an unreadable .db file, answering UNENCRYPTED
C10_Witness ==
    /\ pc = "done" /\ op = "detect" /\ enc.st = "unreadable" /\ enc.suffix = ".db"
    /\ ret = "UNENCRYPTED"

\* the bytes of the input file when the call began (the file at the output
\* path is the input file itself when the two paths coincide)
InputBefore == IF SamePath(enc, output_arg) THEN out_before.data ELSE enc.data

\* C11: a CRYPT12 input shorter than 87 bytes and a CRYPT14 input shorter than
\* 195 bytes fail fast: the call has returned None, no cipher was constructed,
\* no candidate offset was tried, and the file at the output path is what it
\* was before the call.
C11_ShortContainerFailsFast ==
    (op = "decrypt" /\ enc.st = "ok"
        /\ ((enc_type = "CRYPT12" /\ Len(InputBefore) < 87)
                \/ (enc_type = "CRYPT14" /\ Len(InputBefore) < 195))) =>
        /\ pc = "done" /\ ret = "None"
        /\ cipher_calls = 0 /\ tried = <<>>
        /\ out = out_before

\* an 86-byte .crypt12 file rejected with an earlier output file left in place
C11_Witness ==
    /\ op = "decrypt" /\ pc = "done" /\ enc_type = "CRYPT12"
    /\ enc.st = "ok" /\ Len(enc.data) = 86
    /\ ret = "None" /\ cipher_calls = 0 /\ out = StaleFile

\* C12 as claimed: for every input detected as UNENCRYPTED, decrypt() with an
\* explicit or a default output path returns the output path, the output
\* file's bytes equal the input's bytes, and the input file is unchanged.
C12_UnencryptedCopied ==
    (pc = "done" /\ op = "decrypt" /\ enc_type = "UNENCRYPTED") =>
        /\ ret = "path"
        /\ out = [exists |-> TRUE, data |-> InputBefore]
        /\ enc.data = InputBefore

\* C13 as claimed: CRYPT12 round trip.  For every plaintext database, key and
\* reference container of at least 87 bytes (51-byte header, 16-byte IV,
\* 20-byte footer), encrypt_crypt12 followed by decryption of the produced
\* container with the same key returns the output path and the output bytes
\* are the original plaintext.
C13_Crypt12RoundTrip ==
    (pc = "done" /\ op = "decrypt" /\ meta.kind = "roundtrip"
        /\ reference.st = "ok" /\ Len(reference.data) >= 87) =>
        (ret = "path" /\ out = [exists |-> TRUE, data |-> meta.plain])

\* ---------------------------------------------------------- parser claims
\* the query variants of a probing operation
QueriesOf(op_) == IF op_ = "get_chats" THEN ChatQueries ELSE MessageQueries

\* the keys of the rows variant v yields for call c on database db
RowKeys(db, c, v) ==
    IF c.op = "get_chats"
    THEN LET rows == ChatRows(db, v) IN [i \in 1..Len(rows) |-> rows[i].jid]
    ELSE LET rows == MessageRows(db, v, c.chat_jid, c.limit) IN
         [i \in 1..Len(rows) |-> rows[i]._id]

ResultKeys(c) ==
    [i \in 1..Len(c.result) |->
        IF c.op = "get_chats" THEN c.result[i].jid ELSE c.result[i].message_id]

\* C14: schema probing in get_chats and get_messages.  The variants are
\* executed in their listed order 1, 2, ...; no variant before the last
\* executed one ran successfully; the loop stops before the last variant only
\* at a variant that ran successfully or raised a non-schema error; every
\* returned item comes from the last executed variant, which ran
\* successfully, and the returned list is exactly that variant's rows.
C14_FirstMatchingVariantOnly ==
    \A k \in 1..Len(calls) :
        LET c  == calls[k]
            qs == QueriesOf(c.op)
            n  == Len(c.executed)
        IN  c.op \in {"get_chats", "get_messages"} =>
            /\ n \in 1..Len(qs)
            /\ \A i \in 1..n : c.executed[i].variant = i
            /\ \A i \in 1..(n - 1) : Execute(msgstore_db, qs[i]) # "ok"
            /\ n < Len(qs) => Execute(msgstore_db, qs[n]) \in {"ok", "notadb"}
            /\ \A i \in 1..Len(c.result) :
                c.result[i].variant = n /\ Execute(msgstore_db, qs[n]) = "ok"
            /\ (c.ret = "list" /\ Execute(msgstore_db, qs[n]) = "ok") =>
                ResultKeys(c) = RowKeys(msgstore_db, c, n)

\* get_messages on a database holding both a message and a messages table:
\* the full variant failed, the simple one supplied all rows, and the legacy
\* variant, which would have run too, was not executed
C14_Witness ==
    \E k \in 1..Len(calls) :
        /\ calls[k].op = "get_messages"
        /\ Len(calls[k].executed) = 2
        /\ calls[k].executed[1].outcome = "schema"
        /\ calls[k].executed[2].outcome = "ok"
        /\ Execute(msgstore_db, MessageQueries[3]) = "ok"
        /\ Len(calls[k].result) = 3
        /\ \A i \in 1..3 : calls[k].result[i].variant = 2

\* a database holding only the legacy chat_list and messages tables, each with
\* at least one row
LegacyOnly(db) ==
    /\ db.st = "sqlite"
    /\ DOMAIN db.tables = {"chat_list", "messages"}
    /\ db.tables["chat_list"].rows # <<>>
    /\ db.tables["messages"].rows # <<>>

\* C15 as claimed: on a database with only the legacy chat_list and messages
\* tables, get_chats() returns one Chat per chat_list row and get_messages()
\* one Message per messages row, both non-empty, through the legacy variant.
C15_LegacySchemaParsed ==
    \A k \in 1..Len(calls) :
        LET c == calls[k] IN
        LegacyOnly(msgstore_db) =>
            /\ c.op = "get_chats" =>
                /\ c.ret = "list"
                /\ Len(c.result) = Len(msgstore_db.tables["chat_list"].rows)
                /\ \A i \in 1..Len(c.result) : c.result[i].variant = 3
            /\ (c.op = "get_messages" /\ c.chat_jid = Null /\ c.limit = NoLimit) =>
                /\ c.ret = "list"
                /\ Len(c.result) = Len(msgstore_db.tables["messages"].rows)
                /\ \A i \in 1..Len(c.result) : c.result[i].variant = 3

\* the jids that have a row in the contacts database
WaJids(wa) ==
    IF wa.st # "sqlite" THEN {}
    ELSE UNION {{r.jid : r \in Range(wa.tables[t].rows)} :
                    t \in DOMAIN wa.tables \cap Range(ContactTables)}

\* the jids that appear as key_remote_jid of some message
MessageTableJids(db) ==
    IF db.st = "sqlite" /\ "message" \in DOMAIN db.tables
    THEN {m.key_remote_jid : m \in Range(db.tables["message"].rows)} \ {Null}
    ELSE {}

\* C16 as claimed: contact completeness.  After get_contacts(), every jid that
\* appears as key_remote_jid of some message and has no row in the contacts
\* database is in the result as a Contact with display_name None, with or
\* without a contacts database and with or without a contacts table in the
\* message database.
C16_ContactCompleteness ==
    \A k \in 1..Len(calls) :
        LET c == calls[k] IN
        c.op = "get_contacts" =>
            \A j \in MessageTableJids(msgstore_db) \ WaJids(wa_db) :
                \E i \in 1..Len(c.result) :
                    c.result[i] = [jid |-> j, display_name |-> Null]

\* C17 as claimed: the result of get_contacts() is unique by jid, whatever the
\* rows of the contacts database (repeated jids included) and of the message
\* table.
C17_ContactsUniqueByJid ==
    \A k \in 1..Len(calls) :
        LET c == calls[k] IN
        c.op = "get_contacts" =>
            \A i, j \in 1..Len(c.result) :
                c.result[i].jid = c.result[j].jid => i = j

\* the exceptions a database error surfaces as
DatabaseErrors == {"DatabaseError", "OperationalError"}

\* C18 as claimed: for get_chats, get_messages, get_contacts and
\* get_call_logs, a call in which some query hit a database error other than a
\* schema mismatch (the file is not a database, a disk I/O error) ends with
\* that error raised to the caller, never with a normal result; a call whose
\* queries hit nothing but schema mismatches raises no database error.
C18_ErrorTaxonomy ==
    \A k \in 1..Len(calls) :
        LET c == calls[k] IN
        /\ (\E i \in 1..Len(c.executed) : c.executed[i].outcome \in {"notadb", "ioerr"}) =>
            c.ret \in DatabaseErrors
        /\ (\A i \in 1..Len(c.executed) : c.executed[i].outcome \in {"schema", "ok"}) =>
            c.ret \notin DatabaseErrors

\* every query of qs hits a schema mismatch on database db
AllMismatch(db, qs) == \A i \in 1..Len(qs) : Execute(db, qs[i]) = "schema"

\* every query variant of operation op_ hits a schema mismatch; get_contacts
\* has the variants of wa.db (when one is open) and the msgstore.db query
SchemaUnknown(op_) ==
    IF op_ = "get_chats" THEN AllMismatch(msgstore_db, ChatQueries)
    ELSE IF op_ = "get_messages" THEN AllMismatch(msgstore_db, MessageQueries)
    ELSE IF op_ = "get_call_logs" THEN AllMismatch(msgstore_db, CallQueries)
    ELSE /\ op_ = "get_contacts"
         /\ has_wa => AllMismatch(wa_db, ContactQueries)
         /\ Execute(msgstore_db, MessageJidQuery) = "schema"

VariantCount(op_) ==
    IF op_ = "get_call_logs" THEN 2
    ELSE IF op_ = "get_contacts" THEN (IF has_wa THEN 4 ELSE 1)
    ELSE 3

\* C19: partial-failure tolerance.  An operation all of whose query variants
\* hit a schema mismatch has tried every variant and returns an empty list
\* without raising.  The other operations on the same database are
\* unaffected: after such a call on the test database (which has no call-log
\* table), get_chats() still returns its two chats and get_messages() its
\* three messages.
C19_PartialFailureTolerance ==
    \A k \in 1..Len(calls) :
        LET c == calls[k] IN
        /\ SchemaUnknown(c.op) =>
            /\ c.ret = "list" /\ c.result = <<>>
            /\ Len(c.executed) = VariantCount(c.op)
        /\ ((\E h \in 1..(k - 1) : SchemaUnknown(calls[h].op))
                /\ msgstore_db = Sqlite(TestTables)) =>
            /\ c.op = "get_chats" =>
                (c.ret = "list" /\ ResultKeys(c) = <<JidG, JidA>>)
            /\ (c.op = "get_messages" /\ c.chat_jid = Null /\ c.limit = NoLimit) =>
                (c.ret = "list" /\ ResultKeys(c) = <<2, 3, 1>>)

\* get_call_logs() found no call-log table and returned an empty list, then
\* get_chats() on the same parser returned the two chats
C19_Witness ==
    /\ Len(calls) = 2
    /\ calls[1].op = "get_call_logs" /\ SchemaUnknown("get_call_logs")
    /\ calls[1].ret = "list" /\ calls[1].result = <<>>
    /\ calls[2].op = "get_chats" /\ Len(calls[2].result) = 2

\* C20 as claimed: every connection opened by get_chats, get_messages,
\* get_contacts or get_call_logs is closed by the time the call returns or
\* raises; after any sequence of these calls none of their connections is open.
C20_ConnectionsClosed ==
    \A k \in 1..Len(calls) : calls[k].leaked = 0

\* jid.endswith("@g.us") alone
EndsWithGroupDomain(jid) ==
    Len(jid) >= 2 /\ jid[Len(jid) - 1] = "@" /\ jid[Len(jid)] = "g.us"

\* C21 as claimed: a Chat returned by get_chats() has is_group exactly when its
\* jid ends with "@g.us", and the participants of every chat whose jid does
\* not end with "@g.us" are empty.
C21_GroupIffGroupDomain ==
    \A k \in 1..Len(calls) :
        LET c == calls[k] IN
        c.op = "get_chats" =>
            \A i \in 1..Len(c.result) :
                /\ c.result[i].is_group = EndsWithGroupDomain(c.result[i].jid)
                /\ ~ EndsWithGroupDomain(c.result[i].jid) => c.result[i].participants = <<>>

\* the messages a call produced: the list of get_messages, the messages of the
\* Chat of get_chat_with_messages
MessagesOf(c) ==
    IF c.op = "get_messages" THEN c.result
    ELSE IF c.op = "get_chat_with_messages" /\ c.result # <<>> THEN c.result[1].messages
    ELSE <<>>

\* C22 as claimed: get_messages() returns messages in ascending timestamp
\* order, and when a chat_jid is given (any value but None) every returned
\* message has exactly that chat_jid; the same for the messages of the Chat of
\* get_chat_with_messages().
C22_MessagesOrderedPerChat ==
    \A k \in 1..Len(calls) :
        LET c  == calls[k]
            ms == MessagesOf(c)
        IN  /\ \A i, j \in 1..Len(ms) : i < j => ms[i].timestamp <= ms[j].timestamp
            /\ c.chat_jid # Null => \A i \in 1..Len(ms) : ms[i].chat_jid = c.chat_jid

\* C23 as claimed: every Contact whose phone_number was not supplied has
\* phone_number equal to the part of its current jid before the "@" (the whole
\* jid when it has no "@"), also after jid is reassigned.  For an empty jid
\* the phone_number None is accepted as the empty string.
C23_PhoneNumberFollowsJid ==
    \A i \in 1..Len(contact_objs) :
        LET c == contact_objs[i] IN
        ~ c.supplied =>
            \/ c.phone_number = PhoneOf(c.jid)
            \/ c.jid = Empty /\ c.phone_number = Null

\* every column the modern chat query needs is present
ModernSchema(db) == Execute(db, ChatQueryModern) = "ok"

\* C24 as claimed: on a database with the modern normalized jid schema,
\* get_chats() answers through the modern variant, and every returned chat
\* carries the last-message value that variant selects, not None.
C24_ModernVariantAnswers ==
    \A k \in 1..Len(calls) :
        LET c == calls[k] IN
        (c.op = "get_chats" /\ ModernSchema(msgstore_db)) =>
            /\ c.ret = "list"
            /\ c.executed[Len(c.executed)].variant = 2
            /\ ResultKeys(c) = RowKeys(msgstore_db, c, 2)
            /\ \A i \in 1..Len(c.result) :
                /\ c.result[i].variant = 2
                /\ c.result[i].last_message_timestamp # NullInt
                /\ c.result[i].last_message_timestamp
                        = ChatRows(msgstore_db, 2)[i].last_message_timestamp

\* the call-log table of db has the columns of the call_log-joined-with-jid
\* variant, or of the calls variant
CallLogVariant(db) ==
    /\ db.st = "sqlite"
    /\ {"call_log", "jid"} \subseteq DOMAIN db.tables
    /\ CallLogCols \subseteq db.tables["call_log"].cols
    /\ {"_id", "raw_string"} \subseteq db.tables["jid"].cols

CallsVariant(db) ==
    /\ db.st = "sqlite"
    /\ "calls" \in DOMAIN db.tables
    /\ CallTableCols \subseteq db.tables["calls"].cols

\* C25 as claimed: on a database whose call-log table matches one of the
\* known variants and holds n rows, get_call_logs() returns exactly n CallLog
\* entries, one per row of the table.
C25_OneCallLogPerRow ==
    \A k \in 1..Len(calls) :
        LET c == calls[k] IN
        c.op = "get_call_logs" =>
            /\ CallLogVariant(msgstore_db) =>
                (c.ret = "list" /\ Len(c.result) = CallRowCount(msgstore_db, 1))
            /\ (CallsVariant(msgstore_db) /\ ~ CallLogVariant(msgstore_db)) =>
                (c.ret = "list" /\ Len(c.result) = CallRowCount(msgstore_db, 2))

\* the rows get_messages(chat_jid, limit) is to select from, by the documented
\* contract: those of the chat when a chat_jid is passed, in ascending
\* timestamp order
SelectedRows(db, v, chat_jid) ==
    LET all == db.tables[IF v = 3 THEN "messages" ELSE "message"].rows
        sel == IF chat_jid = Null THEN all
               ELSE SelectSeq(all, LAMBDA m : m.key_remote_jid = chat_jid)
    IN  SortSeq(sel, LAMBDA a, b : a.timestamp < b.timestamp)

\* C26 as claimed: when a limit >= 0 is passed to get_messages the result has
\* at most limit messages and they are the earliest messages by timestamp of
\* the selected set; when a chat_jid is passed (any string, the empty string
\* included) no message of another chat is returned.
C26_LimitAndFilterHonoured ==
    \A k \in 1..Len(calls) :
        LET c == calls[k]
            v == c.executed[Len(c.executed)].variant
        IN  (c.op = "get_messages" /\ c.ret = "list" /\ c.result # <<>>) =>
            /\ (c.limit.given /\ c.limit.n >= 0) =>
                /\ Len(c.result) <= c.limit.n
                /\ ResultKeys(c)
                    = [i \in 1..Len(c.result) |->
                        SelectedRows(msgstore_db, v, c.chat_jid)[i]._id]
            /\ c.chat_jid # Null =>
                \A i \in 1..Len(c.result) : c.result[i].chat_jid = c.chat_jid

\* the rows of the first of wa_contacts, contacts, user that the contacts
\* database holds (with its jid and display_name columns); none when there is
\* no contacts database or it holds none of the three
FirstContactRows ==
    LET has(t) == /\ has_wa /\ wa_db.st = "sqlite" /\ t \in DOMAIN wa_db.tables
                  /\ {"jid", "display_name"} \subseteq wa_db.tables[t].cols
    IN  IF has("wa_contacts") THEN wa_db.tables["wa_contacts"].rows
        ELSE IF has("contacts") THEN wa_db.tables["contacts"].rows
        ELSE IF has("user") THEN wa_db.tables["user"].rows
        ELSE <<>>

C28_VerifyIntegrityExact ==
    custody_ret.op = "verify_integrity" =>
        LET id == custody_ret.item_id
            i  == IndexOf(evidence_items, id)
        IN  IF i = 0
            THEN /\ custody_ret.ret = "ValueError"
                 /\ evidence_items = custody_ret.items_before
                 /\ chain_log_file = custody_ret.log_before
            ELSE LET now == files[evidence_items[i].filepath] IN
                 /\ custody_ret.ret \in {"True", "False"}
                 /\ custody_ret.ret = "True" <=>
                        /\ now # Absent
                        /\ Md5(now) = Md5(acquired[id])
                        /\ Sha256(now) = Sha256(acquired[id])
                 /\ now # acquired[id] => custody_ret.ret = "False"

\* an item was added, later its file was overwritten with another content,
\* and verify_integrity on it returned False
C28_Witness ==
    /\ custody_ret.op = "verify_integrity"
    /\ custody_ret.ret = "False"
    /\ IndexOf(evidence_items, custody_ret.item_id) # 0
    /\ LET e == evidence_items[IndexOf(evidence_items, custody_ret.item_id)] IN
        /\ files[e.filepath] \in Contents
        /\ files[e.filepath] # acquired[e.item_id]
        /\ Len(e.custody_chain) = 2

\* s is an initial part of t
IsPrefix(s, t) == Len(s) <= Len(t) /\ SubSeq(t, 1, Len(s)) = s

\* C29: after any sequence of add_evidence and add_custody_entry calls the
\* evidence items have distinct item_ids and every custody_chain starts with
\* an 'acquired' entry; each call keeps every earlier item and only appends to
\* chains (a successful add_evidence adds one new item); add_custody_entry for
\* an unknown item_id raises ValueError and leaves the items and the persisted
\* file as they were.
C29_CustodyChainAppendOnly ==
    LET before == custody_ret.items_before IN
    /\ \A i, j \in 1..Len(evidence_items) :
        evidence_items[i].item_id = evidence_items[j].item_id => i = j
    /\ \A i \in 1..Len(evidence_items) :
        evidence_items[i].custody_chain[1].action = "acquired"
    /\ custody_ret.op \in {"add_evidence", "add_custody_entry"} =>
        /\ Len(before) <= Len(evidence_items)
        /\ \A i \in 1..Len(before) :
            /\ evidence_items[i].item_id = before[i].item_id
            /\ IsPrefix(before[i].custody_chain, evidence_items[i].custody_chain)
        /\ custody_ret.ret = "EvidenceItem" => Len(evidence_items) = Len(before) + 1
        /\ (custody_ret.op = "add_custody_entry"
                /\ IndexOf(before, custody_ret.item_id) = 0) =>
            /\ custody_ret.ret = "ValueError"
            /\ evidence_items = before
            /\ chain_log_file = custody_ret.log_before

\* two items of the same evidence type, the first with an appended entry,
\* then add_custody_entry for an unknown item_id raised ValueError
C29_Witness ==
    /\ custody_ret.op = "add_custody_entry"
    /\ custody_ret.ret = "ValueError"
    /\ Len(evidence_items) = 2
    /\ evidence_items[1].evidence_type = evidence_items[2].evidence_type
    /\ Len(evidence_items[1].custody_chain) = 2
    /\ chain_log_file.exists

\* the three checks that feed compliance_issues
IssueChecks == {"check_acpo_principles", "check_chain_of_custody", "check_hash_integrity"}

\* the number of issues before call k
IssuesBefore(k) == IF k = 1 THEN 0 ELSE checks[k - 1].report.total_issues

\* C30 as claimed: each of check_acpo_principles, check_chain_of_custody and
\* check_hash_integrity returns True exactly when it added no entry to
\* compliance_issues; after any sequence of checks the report says
\* 'compliant' exactly when every such check so far returned True; and a check
\* repeated with the same arguments leaves the report's total_issues as it was.
C30_ChecksAgreeWithReport ==
    \A k \in 1..Len(checks) :
        LET c == checks[k] IN
        /\ c.check \in IssueChecks =>
            (c.ret = "True" <=> c.report.total_issues = IssuesBefore(k))
        /\ c.report.overall_status = "compliant" <=>
            \A h \in 1..k : checks[h].check \in IssueChecks => checks[h].ret = "True"
        /\ (k > 1 /\ c.check \in IssueChecks /\ c.check = checks[k - 1].check
                /\ c.args = checks[k - 1].args) =>
            c.report.total_issues = IssuesBefore(k)

====
